---- MODULE Spec2Model ----
(***************************************************************************)
(* A model of the magNET interpreter: lexer (src/src/lexer.py), Pratt      *)
(* parser (src/src/parser.py), tree-walking evaluator                      *)
(* (src/src/evaluator.py) and the REPL loop (src/src/repl.py).             *)
(*                                                                         *)
(* Source text is a sequence of one-character strings.  A token literal    *)
(* and a runtime string are sequences of characters as well.  The absent   *)
(* Python value None is the record None, distinct from the NULL sentinel.  *)
(***************************************************************************)
EXTENDS Integers, Sequences, FiniteSets, TLC

\* The element of a one-element set.  The({ e : x \in {v} }) is e with x bound
\* to the value of v, computed once: Python's `x = v` followed by e.
The(S) == CHOOSE x \in S : TRUE

\* --------------------------------------------------------------- characters
Letters ==
  { "a", "b", "c", "d", "e", "f", "g", "h", "i", "j", "k", "l", "m",
    "n", "o", "p", "q", "r", "s", "t", "u", "v", "w", "x", "y", "z", "_" }

Digits == { "0", "1", "2", "3", "4", "5", "6", "7", "8", "9" }

WhiteSpace == { " ", "\t", "\n", "\r" }

Quotes == { "\"", "'" }

\* ------------------------------------------------------------------- tokens
Token(token_type, literal) == [token_type |-> token_type, literal |-> literal]

EOF_TOKEN == Token("EOF", <<>>)

\* A keyword table without the word forms of the operators.
LookupWithoutWordForms(literal) ==
  CASE literal = <<"c", "o", "n", "s", "t">> -> "CONST"
    [] literal = <<"e", "l", "s", "e">> -> "ELSE"
    [] literal = <<"f", "a", "l", "s", "e">> -> "FALSE"
    [] literal = <<"f", "u", "n", "c", "t", "i", "o", "n">> -> "FUNCTION"
    [] literal = <<"i", "f">> -> "IF"
    [] literal = <<"l", "e", "t">> -> "LET"
    [] literal = <<"r", "e", "t", "u", "r", "n">> -> "RETURN"
    [] literal = <<"t", "r", "u", "e">> -> "TRUE"
    [] literal = <<"v", "a", "r">> -> "VAR"
    [] OTHER -> "IDENT"

lookup_token_type(literal) ==
  CASE literal = <<"a", "n", "d">> -> "AND"
    [] literal = <<"c", "o", "n", "s", "t">> -> "CONST"
    [] literal = <<"e", "l", "s", "e">> -> "ELSE"
    [] literal = <<"f", "a", "l", "s", "e">> -> "FALSE"
    [] literal = <<"f", "u", "n", "c", "t", "i", "o", "n">> -> "FUNCTION"
    [] literal = <<"i", "f">> -> "IF"
    [] literal = <<"l", "e", "t">> -> "LET"
    [] literal = <<"o", "r">> -> "OR"
    [] literal = <<"r", "e", "t", "u", "r", "n">> -> "RETURN"
    [] literal = <<"t", "r", "u", "e">> -> "TRUE"
    [] literal = <<"v", "a", "r">> -> "VAR"
    [] literal = <<"x", "o", "r">> -> "XOR"
    [] OTHER -> "IDENT"

\* -------------------------------------------------------------------- lexer
\* Python slice source[from:to] with 0-based bounds, clamped to the text.
Slice(source, from, to) ==
  SubSeq(source, from + 1, IF to > Len(source) THEN Len(source) ELSE to)

_read_character(l) ==
  [l EXCEPT !.character = IF l.read_position >= Len(l.source)
                             THEN ""
                             ELSE l.source[l.read_position + 1],
            !.position = l.read_position,
            !.read_position = l.read_position + 1]

Lexer(source) ==
  _read_character([source |-> source, character |-> "",
                   position |-> 0, read_position |-> 0])

\* A lexer that sees nothing ahead.
PeekNothing(l) == ""

_peek_character(l) ==
  IF l.read_position >= Len(l.source) THEN "" ELSE l.source[l.read_position + 1]

_is_letter(character) == character \in Letters

_is_number(character) == character \in Digits

RECURSIVE _skip_whitespace(_)
_skip_whitespace(l) ==
  IF l.character \in WhiteSpace THEN _skip_whitespace(_read_character(l)) ELSE l

RECURSIVE ReadWhile(_, _)
\* The loop `while cond(character): _read_character()`.
ReadWhile(l, chars) ==
  IF l.character \in chars THEN ReadWhile(_read_character(l), chars) ELSE l

_read_identifier(l) ==
  LET e == ReadWhile(l, Letters \cup Digits)
  IN [literal |-> Slice(l.source, l.position, e.position), l |-> e]

\* A reader of numbers that gives the literal and leaves the lexer where it
\* was.
ReadNumberInPlace(l) ==
  LET e == ReadWhile(l, Digits)
  IN [literal |-> Slice(l.source, l.position, e.position), l |-> l]

_read_number(l) ==
  LET e == ReadWhile(l, Digits)
  IN [literal |-> Slice(l.source, l.position, e.position), l |-> e]

RECURSIVE ReadUntilAnyQuote(_, _)
\* A loop that ends at either quote character.
ReadUntilAnyQuote(l, quote_type) ==
  IF l.character \notin Quotes /\ l.read_position <= Len(l.source)
  THEN ReadUntilAnyQuote(_read_character(l), quote_type)
  ELSE l

RECURSIVE ReadUntilQuote(_, _)
ReadUntilQuote(l, quote_type) ==
  IF l.character # quote_type /\ l.read_position <= Len(l.source)
  THEN ReadUntilQuote(_read_character(l), quote_type)
  ELSE l

_read_string(l) ==
  LET s == _read_character(l)
      e == ReadUntilQuote(s, l.character)
  IN [literal |-> Slice(l.source, s.position, e.position),
      l |-> _read_character(e)]

_make_two_character_token(l, token_type) ==
  LET n == _read_character(l)
  IN [tok |-> Token(token_type,
                    <<l.character>> \o (IF n.character = "" THEN <<>> ELSE <<n.character>>)),
      l |-> n]

\* One-character token kinds that never combine with a following character.
SingleKind(c) ==
  CASE c = "^" -> "XOR"
    [] c = "+" -> "PLUS"
    [] c = "-" -> "MINUS"
    [] c = "*" -> "MULTIPLICATION"
    [] c = "/" -> "DIVISION"
    [] c = "(" -> "LPAREN"
    [] c = ")" -> "RPAREN"
    [] c = "{" -> "LBRACE"
    [] c = "}" -> "RBRACE"
    [] c = "," -> "COMMA"
    [] c = ";" -> "SEMICOLON"
    [] OTHER -> "ILLEGAL"

\* For the characters that may open a two-character operator:
\* <<second character, compound kind, single kind>>.
TwoCharRule(c) ==
  CASE c = "=" -> <<"=", "EQUALS", "ASSIGN">>
    [] c = "!" -> <<"=", "NOT_EQUALS", "NEGATION">>
    [] c = "&" -> <<"&", "AND", "INTERSECTION">>
    [] c = "|" -> <<"|", "OR", "UNION">>
    [] c = "<" -> <<"=", "LE", "LT">>
    [] c = ">" -> <<"=", "GE", "GT">>

next_token(l0) ==
  LET l == _skip_whitespace(l0)
      c == l.character
  IN IF c \in {"=", "!", "&", "|", "<", ">"}
     THEN IF _peek_character(l) = TwoCharRule(c)[1]
          THEN LET t == _make_two_character_token(l, TwoCharRule(c)[2])
               IN [tok |-> t.tok, l |-> _read_character(t.l)]
          ELSE [tok |-> Token(TwoCharRule(c)[3], <<c>>), l |-> _read_character(l)]
     ELSE IF c = ""
     THEN [tok |-> Token("EOF", <<>>), l |-> _read_character(l)]
     ELSE IF c \in Quotes
     THEN LET s == _read_string(l)
          IN [tok |-> Token("STRING", s.literal), l |-> s.l]
     ELSE IF SingleKind(c) # "ILLEGAL"
     THEN [tok |-> Token(SingleKind(c), <<c>>), l |-> _read_character(l)]
     ELSE IF _is_letter(c)
     THEN LET s == _read_identifier(l)
          IN [tok |-> Token(lookup_token_type(s.literal), s.literal), l |-> s.l]
     ELSE IF _is_number(c)
     THEN LET s == _read_number(l)
          IN [tok |-> Token("INT", s.literal), l |-> s.l]
     ELSE [tok |-> Token("ILLEGAL", <<c>>), l |-> _read_character(l)]

RECURSIVE LexAll(_)
\* The tokens next_token yields before the first EOF; every later call
\* yields EOF again (the character stays '' once the text is exhausted).
LexAll(l) ==
  The({ IF r.tok.token_type = "EOF" THEN <<>> ELSE <<r.tok>> \o LexAll(r.l)
        : r \in {next_token(l)} })

Tokenize(source) == LexAll(Lexer(source))

\* ------------------------------------------------------------------- parser
LOWEST == 1
EQUALS == 2
LESSGREATER == 3
SUM == 4
PRODUCT == 5
PREFIX == 6
CALL == 7

PRECEDENCES(token_type) ==
  CASE token_type \in {"EQUALS", "NOT_EQUALS"} -> EQUALS
    [] token_type \in {"LT", "GT", "LE", "GE", "AND", "OR", "XOR"} -> LESSGREATER
    [] token_type \in {"PLUS", "MINUS"} -> SUM
    [] token_type \in {"MULTIPLICATION", "DIVISION"} -> PRODUCT
    [] token_type = "NEGATION" -> PREFIX
    [] token_type = "LPAREN" -> CALL
    [] OTHER -> LOWEST

\* Keys of the table _register_prefix_fns builds.
PrefixKinds ==
  { "TRUE", "FALSE", "IDENT", "INT", "MINUS", "NEGATION", "LPAREN",
    "IF", "ELSE", "FUNCTION", "STRING" }

\* Keys of the table _register_infix_fns builds.
InfixKinds ==
  { "ASSIGN", "PLUS", "MINUS", "MULTIPLICATION", "DIVISION", "EQUALS",
    "NOT_EQUALS", "LT", "GT", "LE", "GE", "AND", "OR", "XOR", "LPAREN" }

\* Python's None.
None == [kind |-> "None"]

\* A parser: the token stream of its lexer, the index of the current token
\* (the peek token is the next one; past the end both are EOF), the recorded
\* errors, the name of an exception that is leaving the parser, "" when
\* none, and the number of open frames of _parse_expression.
Parser(source) ==
  [tokens |-> Tokenize(source), pos |-> 1, errors |-> <<>>, raised |-> "", depth |-> 0]

TokAt(p, i) == IF i <= Len(p.tokens) THEN p.tokens[i] ELSE EOF_TOKEN

_current_token(p) == TokAt(p, p.pos)

_peek_token(p) == TokAt(p, p.pos + 1)

_advance_tokens(p) == [p EXCEPT !.pos = @ + 1]

_expected_token_error(p, token_type) ==
  [p EXCEPT !.errors = Append(@, [msg |-> "Expected token", expected |-> token_type,
                                  inserted |-> _peek_token(p)])]

_expected_token(p, token_type) ==
  IF _peek_token(p).token_type = token_type
  THEN [ok |-> TRUE, p |-> _advance_tokens(p)]
  ELSE [ok |-> FALSE, p |-> _expected_token_error(p, token_type)]

_peek_precedence(p) == PRECEDENCES(_peek_token(p).token_type)

\* _current_precedence as it would be without the table: every right operand
\* is parsed at LOWEST.
CurrentPrecedenceLowest(p) == LOWEST

_current_precedence(p) == PRECEDENCES(_current_token(p).token_type)

\* What a parsing function returns, with the parser as it leaves it.
R(node, p) == [node |-> node, p |-> p]

DigitValue(c) ==
  CASE c = "0" -> 0 [] c = "1" -> 1 [] c = "2" -> 2 [] c = "3" -> 3 [] c = "4" -> 4
    [] c = "5" -> 5 [] c = "6" -> 6 [] c = "7" -> 7 [] c = "8" -> 8 [] c = "9" -> 9

RECURSIVE int(_)
\* Python's int() on a run of decimal digits.
int(literal) ==
  IF literal = <<>> THEN 0
  ELSE 10 * int(SubSeq(literal, 1, Len(literal) - 1)) + DigitValue(literal[Len(literal)])

_parse_identifier(p) ==
  [kind |-> "Identifier", token |-> _current_token(p), value |-> _current_token(p).literal]

_parse_boolean(p) ==
  [kind |-> "Boolean", token |-> _current_token(p),
   value |-> (_current_token(p).token_type = "TRUE")]

_parse_string_literal(p) ==
  [kind |-> "StringLiteral", token |-> _current_token(p),
   value |-> _current_token(p).literal]

_parse_integer(p) ==
  LET literal == _current_token(p).literal
  IN IF literal # <<>> /\ \A i \in 1..Len(literal) : literal[i] \in Digits
     THEN R([kind |-> "Integer", token |-> _current_token(p), value |-> int(literal)], p)
     ELSE R(None, [p EXCEPT !.errors =
                     Append(@, [msg |-> "Is not an integer", token |-> _current_token(p)])])

\* The host's limit on nested calls, counted in the frames of
\* _parse_expression that are open at once (every cycle of the parser's
\* recursion goes through it).  Python raises RecursionError beyond it.
MaxParseDepth == 6

\* A parsing function left by an exception: what it would have returned is
\* lost, the parser carries the exception's name.
Raised(r) == r.p.raised # ""

RaiseIn(p, exception) == R(None, [p EXCEPT !.raised = exception])

\* The handler `except BaseException: return left_expression` of
\* _parse_expression: the exception is swallowed.
ExceptBaseException(left, p, exception) == R(left, [p EXCEPT !.raised = ""])

\* A frame of _parse_expression is entered, and left with what it returns.
Enter(p) == [p EXCEPT !.depth = @ + 1]

Leave(r, depth) == R(r.node, [r.p EXCEPT !.depth = depth])

RECURSIVE _parse_expression(_, _), InfixLoop(_, _, _), _parse_statement(_),
          BlockLoop(_, _), ArgsLoop(_, _), _parse_if(_), _parse_function(_)

_parse_prefix_expression(p) ==
  The({ IF Raised(r) THEN R(None, r.p)
        ELSE R([kind |-> "Prefix", token |-> _current_token(p),
                operator |-> _current_token(p).literal, right |-> r.node], r.p)
        : r \in {_parse_expression(_advance_tokens(p), PREFIX)} })

_parse_infix_expression(p, left) ==
  The({ IF Raised(r) THEN R(None, r.p)
        ELSE R([kind |-> "Infix", token |-> _current_token(p), left |-> left,
                operator |-> _current_token(p).literal, right |-> r.node], r.p)
        : r \in {_parse_expression(_advance_tokens(p), _current_precedence(p))} })

_parse_grouped_expression(p) ==
  The({ LET x == _expected_token(e.p, "RPAREN")
        IN IF Raised(e) THEN R(None, e.p)
           ELSE IF ~x.ok THEN R(None, x.p) ELSE R(e.node, x.p)
        : e \in {_parse_expression(_advance_tokens(p), LOWEST)} })

\* The do-while loop of _parse_call_args, entered with the current token at
\* the start of an argument.
ArgsLoop(p, expr_list) ==
  The({ LET l == IF e.node # None THEN Append(expr_list, e.node) ELSE expr_list
            x == _expected_token(e.p, "RPAREN")
        IN IF Raised(e) THEN R(None, e.p)
           ELSE IF _peek_token(e.p).token_type = "COMMA"
           THEN ArgsLoop(_advance_tokens(_advance_tokens(e.p)), l)
           ELSE IF ~x.ok THEN R(None, x.p)
           ELSE R([kind |-> "list", items |-> l], x.p)
        : e \in {_parse_expression(p, LOWEST)} })

_parse_call_args(p) ==
  IF _peek_token(p).token_type = "RPAREN"
  THEN R([kind |-> "list", items |-> <<>>], _advance_tokens(p))
  ELSE ArgsLoop(_advance_tokens(p), <<>>)

_parse_call(p, func) ==
  The({ IF Raised(a) THEN R(None, a.p)
        ELSE R([kind |-> "Call", token |-> _current_token(p), func |-> func,
                args |-> a.node], a.p)
        : a \in {_parse_call_args(p)} })

\* The loop of _parse_block: statements until `}` or the end of input.
BlockLoop(p, statements) ==
  IF _current_token(p).token_type \notin {"RBRACE", "EOF"}
  THEN The({ IF Raised(s) THEN R(None, s.p)
             ELSE BlockLoop(_advance_tokens(s.p),
                            IF s.node # None THEN Append(statements, s.node)
                            ELSE statements)
             : s \in {_parse_statement(p)} })
  ELSE R([kind |-> "Block", token |-> None, statements |-> statements], p)

_parse_block(p) ==
  The({ IF Raised(b) THEN R(None, b.p)
        ELSE R([b.node EXCEPT !.token = _current_token(p)], b.p)
        : b \in {BlockLoop(_advance_tokens(p), <<>>)} })

\* The tail of _parse_if after the consequence: the optional else block.
ParseElse(node, p) ==
  LET x == _expected_token(_advance_tokens(p), "LBRACE")
  IN IF _peek_token(p).token_type # "ELSE" THEN R(node, p)
     ELSE IF ~x.ok THEN R(None, x.p)
     ELSE The({ IF Raised(alt) THEN R(None, alt.p)
                ELSE R([node EXCEPT !.alternative = alt.node], alt.p)
                : alt \in {_parse_block(x.p)} })

_parse_if(p) ==
  LET x1 == _expected_token(p, "LPAREN")
  IN IF ~x1.ok THEN R(None, x1.p)
     ELSE The({ LET x2 == _expected_token(c.p, "RPAREN")
                    x3 == _expected_token(x2.p, "LBRACE")
                IN IF Raised(c) THEN R(None, c.p)
                   ELSE IF ~x2.ok THEN R(None, x2.p)
                   ELSE IF ~x3.ok THEN R(None, x3.p)
                   ELSE The({ IF Raised(cons) THEN R(None, cons.p)
                              ELSE ParseElse([kind |-> "If", token |-> _current_token(p),
                                              condition |-> c.node,
                                              consequence |-> cons.node,
                                              alternative |-> None], cons.p)
                              : cons \in {_parse_block(x3.p)} })
                : c \in {_parse_expression(_advance_tokens(x1.p), LOWEST)} })

RECURSIVE ParamsLoop(_, _)
\* The while loop of _parse_func_params: `, name` repeated.
ParamsLoop(p, params) ==
  IF _peek_token(p).token_type = "COMMA" /\ _peek_token(p).token_type # "EOF"
  THEN ParamsLoop(_advance_tokens(_advance_tokens(p)),
                  Append(params, _parse_identifier(_advance_tokens(_advance_tokens(p)))))
  ELSE R(params, p)

_parse_func_params(p) ==
  IF _peek_token(p).token_type = "RPAREN"
  THEN R(<<>>, _advance_tokens(p))
  ELSE The({ LET x == _expected_token(l.p, "RPAREN")
             IN IF ~x.ok THEN R(<<>>, x.p) ELSE R(l.node, x.p)
             : l \in {ParamsLoop(_advance_tokens(p),
                                 <<_parse_identifier(_advance_tokens(p))>>)} })

_parse_function(p) ==
  LET named == _peek_token(p).token_type = "IDENT"
      p1 == IF named THEN _advance_tokens(p) ELSE p
      name == IF named THEN _parse_identifier(p1) ELSE None
      x1 == _expected_token(p1, "LPAREN")
  IN IF ~x1.ok THEN R(None, x1.p)
     ELSE The({ LET x2 == _expected_token(params.p, "LBRACE")
                IN IF ~x2.ok THEN R(None, x2.p)
                   ELSE The({ IF Raised(body) THEN R(None, body.p)
                              ELSE R([kind |-> "Function", token |-> _current_token(p),
                                      params |-> params.node, body |-> body.node,
                                      name |-> name], body.p)
                              : body \in {_parse_block(x2.p)} })
                : params \in {_parse_func_params(x1.p)} })

\* prefix_parse_fn(): the function registered for the current token's kind.
PrefixParseFn(p) ==
  LET token_type == _current_token(p).token_type
  IN CASE token_type \in {"TRUE", "FALSE"} -> R(_parse_boolean(p), p)
       [] token_type = "IDENT" -> R(_parse_identifier(p), p)
       [] token_type = "INT" -> _parse_integer(p)
       [] token_type \in {"MINUS", "NEGATION"} -> _parse_prefix_expression(p)
       [] token_type = "LPAREN" -> _parse_grouped_expression(p)
       [] token_type \in {"IF", "ELSE"} -> _parse_if(p)
       [] token_type = "FUNCTION" -> _parse_function(p)
       [] token_type = "STRING" -> R(_parse_string_literal(p), p)

\* infix_parse_fn(left): the function registered for the current token's kind.
InfixParseFn(p, left) ==
  IF _current_token(p).token_type = "LPAREN"
  THEN _parse_call(p, left)
  ELSE _parse_infix_expression(p, left)

\* The while loop of _parse_expression; whatever its try block raises is
\* caught, an exception of infix_parse_fn included.
InfixLoop(left_expression, p, precedence) ==
  IF _peek_token(p).token_type # "SEMICOLON" /\ precedence < _peek_precedence(p)
  THEN IF _peek_token(p).token_type \notin InfixKinds
       THEN ExceptBaseException(left_expression, p, "KeyError")
       ELSE IF left_expression = None
       THEN ExceptBaseException(left_expression, _advance_tokens(p), "AssertionError")
       ELSE The({ IF Raised(i) THEN ExceptBaseException(left_expression, i.p, i.p.raised)
                  ELSE InfixLoop(i.node, i.p, precedence)
                  : i \in {InfixParseFn(_advance_tokens(p), left_expression)} })
  ELSE R(left_expression, p)

_parse_expression(p, precedence) ==
  IF p.depth >= MaxParseDepth THEN RaiseIn(p, "RecursionError")
  ELSE IF _current_token(p).token_type \notin PrefixKinds
  THEN R(None, [p EXCEPT !.errors =
                  Append(@, [msg |-> "No function found to parse",
                             literal |-> _current_token(p).literal])])
  ELSE The({ Leave(IF Raised(l) THEN R(None, l.p)
                   ELSE InfixLoop(l.node, l.p, precedence), p.depth)
             : l \in {PrefixParseFn(Enter(p))} })

\* `if peek is ';': advance`, the tail of every statement parser.
SkipSemicolon(p) ==
  IF _peek_token(p).token_type = "SEMICOLON" THEN _advance_tokens(p) ELSE p

_parse_let_statement(p) ==
  LET x1 == _expected_token(p, "IDENT")
      x2 == _expected_token(x1.p, "ASSIGN")
  IN IF ~x1.ok THEN R(None, x1.p)
     ELSE IF ~x2.ok THEN R(None, x2.p)
     ELSE The({ IF Raised(v) THEN R(None, v.p)
                ELSE R([kind |-> "LetStatement", token |-> _current_token(p),
                        name |-> _parse_identifier(x1.p), value |-> v.node],
                       SkipSemicolon(v.p))
                : v \in {_parse_expression(_advance_tokens(x2.p), LOWEST)} })

_parse_return_statement(p) ==
  The({ IF Raised(v) THEN R(None, v.p)
        ELSE R([kind |-> "ReturnStatement", token |-> _current_token(p),
                return_value |-> v.node], SkipSemicolon(v.p))
        : v \in {_parse_expression(_advance_tokens(p), LOWEST)} })

_parse_expression_statement(p) ==
  The({ IF Raised(e) THEN R(None, e.p)
        ELSE R([kind |-> "ExpressionStatement", token |-> _current_token(p),
                expression |-> e.node], SkipSemicolon(e.p))
        : e \in {_parse_expression(p, LOWEST)} })

_parse_statement(p) ==
  LET token_type == _current_token(p).token_type
  IN IF token_type \in {"LET", "VAR", "CONST"} THEN _parse_let_statement(p)
     ELSE IF token_type = "RETURN" THEN _parse_return_statement(p)
     ELSE _parse_expression_statement(p)

\* One turn of the loop of parse_program: a statement, kept unless it is
\* None, then one token advance.  node is the statement list so far.
ParseProgramStep(p, statements) ==
  The({ IF Raised(s) THEN R(statements, s.p)
        ELSE R(IF s.node # None THEN Append(statements, s.node) ELSE statements,
               _advance_tokens(s.p))
        : s \in {_parse_statement(p)} })

RECURSIVE ParseProgramLoop(_, _)
ParseProgramLoop(p, statements) ==
  IF _current_token(p).token_type # "EOF"
  THEN The({ IF Raised(s) THEN R(None, s.p) ELSE ParseProgramLoop(s.p, s.node)
             : s \in {ParseProgramStep(p, statements)} })
  ELSE R([kind |-> "Program", statements |-> statements], p)

parse_program(p) == ParseProgramLoop(p, <<>>)

\* ------------------------------------------------------------------ printer
\* The __str__ methods of the tree's nodes; texts are sequences of
\* characters.
DigitChar(d) ==
  CASE d = 0 -> "0" [] d = 1 -> "1" [] d = 2 -> "2" [] d = 3 -> "3" [] d = 4 -> "4"
    [] d = 5 -> "5" [] d = 6 -> "6" [] d = 7 -> "7" [] d = 8 -> "8" [] d = 9 -> "9"

RECURSIVE IntStr(_)
\* Python's str() on an int that is not negative.
IntStr(n) == IF n < 10 THEN <<DigitChar(n)>> ELSE IntStr(n \div 10) \o <<DigitChar(n % 10)>>

RECURSIVE StrJoin(_, _)
\* separator.join(texts).
StrJoin(separator, texts) ==
  IF texts = <<>> THEN <<>>
  ELSE IF Len(texts) = 1 THEN texts[1]
  ELSE texts[1] \o separator \o StrJoin(separator, Tail(texts))

RECURSIVE str(_)
\* Python's str() on a node, or on None.
str(node) ==
  CASE node = None -> <<"N", "o", "n", "e">>
    [] node.kind \in {"Program", "Block"} ->
         StrJoin(<<>>, [i \in 1..Len(node.statements) |-> str(node.statements[i])])
    [] node.kind = "Identifier" -> node.value
    [] node.kind = "LetStatement" ->
         node.token.literal \o <<" ">> \o str(node.name) \o <<" ", "=", " ">>
           \o str(node.value) \o <<";">>
    [] node.kind = "ReturnStatement" ->
         node.token.literal \o <<" ">> \o str(node.return_value)
    [] node.kind = "ExpressionStatement" -> str(node.expression)
    [] node.kind = "Integer" -> IntStr(node.value)
    [] node.kind \in {"Boolean", "StringLiteral"} -> node.token.literal
    [] node.kind = "Prefix" ->
         <<"(">> \o node.operator \o <<" ">> \o str(node.right) \o <<")">>
    [] node.kind = "Infix" ->
         <<"(">> \o str(node.left) \o <<" ">> \o node.operator \o <<" ">>
           \o str(node.right) \o <<")">>
    [] node.kind = "If" ->
         <<"i", "f", " ">> \o str(node.condition) \o <<" ", "{">>
           \o str(node.consequence) \o <<"}">>
           \o (IF node.alternative # None
               THEN <<" ", "e", "l", "s", "e", " ", "{">> \o str(node.alternative) \o <<"}">>
               ELSE <<>>)
    [] node.kind = "Function" ->
         node.token.literal \o <<" ">>
           \o (IF node.name # None THEN str(node.name) \o <<" ">> ELSE <<>>)
           \o <<"(">>
           \o StrJoin(<<",", " ">>, [i \in 1..Len(node.params) |-> str(node.params[i])])
           \o <<")", " ", "{", "\n", " ", " ", " ", " ">> \o str(node.body) \o <<"\n", "}">>
    [] node.kind = "Call" /\ node.args # None ->
         str(node.func) \o <<"(">>
           \o StrJoin(<<",", " ">>,
                      [i \in 1..Len(node.args.items) |-> str(node.args.items[i])])
           \o <<")">>

\* The host's limit on nested calls once more, counted in the frames of
\* __str__ that are open at once when a tree is printed.
MaxStrDepth == 8

RECURSIVE Height(_), Highest(_)
\* How many frames of __str__ printing the node opens at once; Highest is
\* the most that printing one of the nodes opens.
Highest(nodes) ==
  IF nodes = <<>> THEN 0
  ELSE The({ IF a >= b THEN a ELSE b
             : a \in {Height(Head(nodes))}, b \in {Highest(Tail(nodes))} })

Height(node) ==
     CASE node = None -> 0
       [] node.kind \in {"Program", "Block"} -> 1 + Highest(node.statements)
       [] node.kind = "LetStatement" -> 1 + Highest(<<node.name, node.value>>)
       [] node.kind = "ReturnStatement" -> 1 + Height(node.return_value)
       [] node.kind = "ExpressionStatement" -> 1 + Height(node.expression)
       [] node.kind = "Prefix" -> 1 + Height(node.right)
       [] node.kind = "Infix" -> 1 + Highest(<<node.left, node.right>>)
       [] node.kind = "If" ->
            1 + Highest(<<node.condition, node.consequence, node.alternative>>)
       [] node.kind = "Function" -> 1 + Highest(<<node.name, node.body>> \o node.params)
       [] node.kind = "Call" ->
            1 + Highest(<<node.func>> \o (IF node.args = None THEN <<>> ELSE node.args.items))
       [] OTHER -> 1

\* str(program) as the test of the printed tree calls it: the text, or the
\* exception that leaves it.
Printed(parsed) ==
  IF Raised(parsed) THEN [raised |-> parsed.p.raised, errors |-> <<>>, text |-> <<>>]
  ELSE IF Height(parsed.node) > MaxStrDepth
  THEN [raised |-> "RecursionError", errors |-> parsed.p.errors, text |-> <<>>]
  ELSE [raised |-> "", errors |-> parsed.p.errors, text |-> str(parsed.node)]

\* ------------------------------------------------------------------ objects
\* Runtime objects are records with a type (ObjectType's name).  Function,
\* Error and Return objects carry the identity `id` of their allocation, which
\* is what Python's `is` compares; TRUE, FALSE and NULL are the shared
\* sentinels, and the built-ins table holds one Builtin per name.
Integer(value) == [type |-> "INTEGER", value |-> value]

String(value) == [type |-> "STRING", value |-> value]

\* A Boolean object; like every object whose identity the program compares
\* it has one (id), given when the object is made.
Boolean(value) == [type |-> "BOOLEAN", value |-> value, id |-> 0]

\* The two Booleans and the Null made when the evaluator is loaded.
TRUE_ == [Boolean(TRUE) EXCEPT !.id = -1]

FALSE_ == [Boolean(FALSE) EXCEPT !.id = -2]

NULL == [type |-> "NULL"]

Return(value) == [type |-> "RETURN", value |-> value, id |-> 0]

Error(message) == [type |-> "ERROR", message |-> message, id |-> 0]

Builtin(fn) == [type |-> "BUILTIN", fn |-> fn]

\* A native failure of the host (a Python exception), as a helper's outcome.
Exception(name) == [type |-> "EXCEPTION", name |-> name]

\* The messages: the template, then its arguments.
_NOT_A_FUNCTION == "Not a function: {}"
_TYPE_MISMATCH == "Type mismatch: {} {} {}"
_UNKNOWN_PREFIX_OPER == "Invalid operator ({}) for type: {}"
_UNKNOWN_INFIX_OPER == "Invalid operation: {} {} {}"
_UNKNOWN_IDENT == "Identifier not found: {}"
_UNSUPPORTED_ARG_TYPE == "Invalid {} type argument"
_WRONG_ARGS_NUM == "Wrong number of arguments: expected {} (given {})"

_new_error(message, args) == Error(<<message>> \o args)

\* A conversion that makes a new Boolean object each time.
ToNewBoolean(value) == Boolean(value)

_to_boolean_object(value) == IF value THEN TRUE_ ELSE FALSE_

\* Python's `left is right` on two objects.
Is(left, right) ==
  /\ left.type = right.type
  /\ CASE left.type = "NULL" -> TRUE
       [] left.type = "BUILTIN" -> left.fn = right.fn
       [] left.type \in {"BOOLEAN", "FUNCTION", "ERROR", "RETURN"} -> left.id = right.id
       [] OTHER -> FALSE

\* The host language's truthiness: zero and the empty text are false too.
IsTruthyAsInPython(obj) ==
  /\ ~(Is(obj, NULL) \/ Is(obj, FALSE_))
  /\ obj.type = "INTEGER" => obj.value # 0
  /\ obj.type = "STRING" => obj.value # <<>>

_is_truthy(obj) == ~(Is(obj, NULL) \/ Is(obj, FALSE_))

\* Division that rounds toward zero, as C does.
TruncDiv(a, b) ==
  LET abs(n) == IF n < 0 THEN 0 - n ELSE n
  IN IF (a < 0) = (b < 0) THEN abs(a) \div abs(b) ELSE 0 - (abs(a) \div abs(b))

\* Python's floor division by a non-zero divisor.
FloorDiv(a, b) ==
  IF b > 0 THEN a \div b ELSE (0 - a) \div (0 - b)

RECURSIVE Repeat(_, _)
\* Python's `text * times`: the empty text when times <= 0.
Repeat(text, times) == IF times <= 0 THEN <<>> ELSE text \o Repeat(text, times - 1)

_eval_infix_int(operator, left, right) ==
  LET left_val == left.value
      right_val == right.value
  IN CASE operator = <<"+">> -> Integer(left_val + right_val)
       [] operator = <<"-">> -> Integer(left_val - right_val)
       [] operator = <<"*">> -> Integer(left_val * right_val)
       [] operator = <<"/">> -> IF right_val = 0 THEN Exception("ZeroDivisionError")
                                ELSE Integer(FloorDiv(left_val, right_val))
       [] operator = <<"<">> -> _to_boolean_object(left_val < right_val)
       [] operator = <<">">> -> _to_boolean_object(left_val > right_val)
       [] operator = <<"=", "=">> -> _to_boolean_object(left_val = right_val)
       [] operator = <<"!", "=">> -> _to_boolean_object(left_val # right_val)
       [] operator = <<"<", "=">> -> _to_boolean_object(left_val <= right_val)
       [] operator = <<">", "=">> -> _to_boolean_object(left_val >= right_val)
       [] OTHER -> _new_error(_UNKNOWN_INFIX_OPER, <<left.type, operator, right.type>>)

\* Strings compared as objects: two Strings made separately are never the
\* same object.
EvalInfixStrByIdentity(operator, left, right) ==
  LET left_val == left.value
  IN IF right.type = "STRING"
     THEN CASE operator = <<"+">> -> String(left_val \o right.value)
            [] operator = <<"=", "=">> -> _to_boolean_object(FALSE)
            [] operator = <<"!", "=">> -> _to_boolean_object(TRUE)
            [] OTHER -> _new_error(_UNKNOWN_INFIX_OPER, <<left.type, operator, right.type>>)
     ELSE IF right.type = "INTEGER" /\ operator = <<"*">>
     THEN String(Repeat(left_val, right.value))
     ELSE _new_error(_TYPE_MISMATCH, <<left.type, operator, right.type>>)

_eval_infix_str(operator, left, right) ==
  LET left_val == left.value
  IN IF right.type = "STRING"
     THEN CASE operator = <<"+">> -> String(left_val \o right.value)
            [] operator = <<"=", "=">> -> _to_boolean_object(left_val = right.value)
            [] operator = <<"!", "=">> -> _to_boolean_object(left_val # right.value)
            [] OTHER -> _new_error(_UNKNOWN_INFIX_OPER, <<left.type, operator, right.type>>)
     ELSE IF right.type = "INTEGER" /\ operator = <<"*">>
     THEN String(Repeat(left_val, right.value))
     ELSE _new_error(_TYPE_MISMATCH, <<left.type, operator, right.type>>)

\* An evaluator that gives `&&`, `||` and `^` their logical results on two
\* Booleans.
EvaluateInfixWithLogic(operator, left, right) ==
  IF left.type = "INTEGER" /\ right.type = "INTEGER"
  THEN _eval_infix_int(operator, left, right)
  ELSE IF left.type = "STRING" /\ right.type \in {"STRING", "INTEGER"}
  THEN _eval_infix_str(operator, left, right)
  ELSE IF operator = <<"=", "=">>
  THEN _to_boolean_object(Is(left, right))
  ELSE IF operator = <<"!", "=">>
  THEN _to_boolean_object(~Is(left, right))
  ELSE IF left.type # right.type
  THEN _new_error(_TYPE_MISMATCH, <<left.type, operator, right.type>>)
  ELSE IF left.type = "BOOLEAN" /\ operator = <<"&", "&">>
  THEN _to_boolean_object(left.value /\ right.value)
  ELSE IF left.type = "BOOLEAN" /\ operator = <<"|", "|">>
  THEN _to_boolean_object(left.value \/ right.value)
  ELSE IF left.type = "BOOLEAN" /\ operator = <<"^">>
  THEN _to_boolean_object(left.value # right.value)
  ELSE _new_error(_UNKNOWN_INFIX_OPER, <<left.type, operator, right.type>>)

_evaluate_infix_expr(operator, left, right) ==
  IF left.type = "INTEGER" /\ right.type = "INTEGER"
  THEN _eval_infix_int(operator, left, right)
  ELSE IF left.type = "STRING" /\ right.type \in {"STRING", "INTEGER"}
  THEN _eval_infix_str(operator, left, right)
  ELSE IF operator = <<"=", "=">>
  THEN _to_boolean_object(Is(left, right))
  ELSE IF operator = <<"!", "=">>
  THEN _to_boolean_object(~Is(left, right))
  ELSE IF left.type # right.type
  THEN _new_error(_TYPE_MISMATCH, <<left.type, operator, right.type>>)
  ELSE _new_error(_UNKNOWN_INFIX_OPER, <<left.type, operator, right.type>>)

_evaluate_bang(right) ==
  IF right.type = "INTEGER"
  THEN (IF right.value = 0 THEN TRUE_ ELSE FALSE_)
  ELSE (IF ~_is_truthy(right) THEN TRUE_ ELSE FALSE_)

_evaluate_positive(right) ==
  IF right.type # "INTEGER"
  THEN _new_error(_UNKNOWN_PREFIX_OPER, <<<<"+">>, right.type>>)
  ELSE Integer(right.value)

_evaluate_negative(right) ==
  IF right.type # "INTEGER"
  THEN _new_error(_UNKNOWN_PREFIX_OPER, <<<<"-">>, right.type>>)
  ELSE Integer(0 - right.value)

_evaluate_prefix_expr(operator, right) ==
  CASE operator = <<"!">> -> _evaluate_bang(right)
    [] operator = <<"+">> -> _evaluate_positive(right)
    [] operator = <<"-">> -> _evaluate_negative(right)
    [] OTHER -> _new_error(_UNKNOWN_PREFIX_OPER, <<operator, right.type>>)

_unwrap_return_value(obj) == IF obj.type = "RETURN" THEN obj.value ELSE obj

\* ----------------------------------------------------------------- builtins
\* A length that looks at the type of its first argument before it counts
\* the arguments.
LengthTypeFirst(args) ==
  IF Len(args) >= 1 /\ args[1].type # "STRING"
  THEN Error(<<_UNSUPPORTED_ARG_TYPE, args[1].type>>)
  ELSE IF Len(args) # 1
  THEN Error(<<_WRONG_ARGS_NUM, 1, Len(args)>>)
  ELSE Integer(Len(args[1].value))

length(args) ==
  IF Len(args) # 1
  THEN Error(<<_WRONG_ARGS_NUM, 1, Len(args)>>)
  ELSE IF args[1].type = "STRING"
  THEN Integer(Len(args[1].value))
  ELSE Error(<<_UNSUPPORTED_ARG_TYPE, args[1].type>>)

\* The names of the BUILTINS table.
BUILTINS == { <<"l", "e", "n", "g", "t", "h">> }

\* ------------------------------------------------------------- environments
\* The interpreter's memory: every Environment made so far (an Environment
\* is named by its index), the next object identity, the depth of nested
\* function applications, the exception that ended evaluation ("" when
\* none), and the history of what the run did.
NewState ==
  [envs |-> <<[store |-> <<>>, outer |-> 0]>>, nid |-> 1, depth |-> 0,
   exc |-> "", log |-> <<>>]

RECURSIVE EnvGet(_, _, _)
\* Environment.__getitem__: the binding of the innermost frame that has the
\* key; found is FALSE for Python's KeyError.
EnvGet(envs, env, key) ==
  IF key \in DOMAIN envs[env].store
  THEN [found |-> TRUE, val |-> envs[env].store[key]]
  ELSE IF envs[env].outer # 0
  THEN EnvGet(envs, envs[env].outer, key)
  ELSE [found |-> FALSE, val |-> None]

RECURSIVE Defining(_, _, _)
\* The innermost frame of the chain of env that has the key, env itself
\* when none has.
Defining(envs, env, key) ==
  IF key \in DOMAIN envs[env].store \/ envs[env].outer = 0 THEN env
  ELSE Defining(envs, envs[env].outer, key)

\* An assignment that updates the binding the name resolves to, and makes
\* a new one in the innermost frame only when the name is unbound.
EnvSetWhereDefined(st, env, key, value) ==
  IF EnvGet(st.envs, env, key).found
  THEN [st EXCEPT !.envs[Defining(st.envs, env, key)].store = (key :> value) @@ @]
  ELSE [st EXCEPT !.envs[env].store = (key :> value) @@ @]

\* Environment.__setitem__.
EnvSet(st, env, key, value) ==
  [st EXCEPT !.envs[env].store = (key :> value) @@ @]

Log(st, event) == [st EXCEPT !.log = Append(@, event)]

\* An evaluation's outcome: the object (None for Python's None) and the
\* memory after it.
Ev(val, st) == [val |-> val, st |-> st]

Raise(st, name) == Ev(None, [st EXCEPT !.exc = name])

Failed(r) == r.st.exc # ""

\* Gives a freshly made Error, Return, Function or Boolean object its
\* identity.
Alloc(obj, st) ==
  IF obj.type \in {"ERROR", "RETURN", "FUNCTION", "BOOLEAN"} /\ obj.id = 0
  THEN Ev([obj EXCEPT !.id = st.nid], [st EXCEPT !.nid = @ + 1])
  ELSE Ev(obj, st)

\* A helper's outcome as the outcome of evaluate: an exception is raised,
\* an object is returned.
Outcome(obj, st) ==
  IF obj.type = "EXCEPTION" THEN Raise(st, obj.name) ELSE Alloc(obj, st)

RECURSIVE BindParams(_, _, _, _)
BindParams(store, params, args, idx) ==
  IF idx > Len(params) THEN store
  ELSE BindParams((params[idx].value :> args[idx]) @@ store, params, args, idx + 1)

\* _ext_func_env as it would be if the frame's outer were the global
\* environment instead of the function's own.
ExtFuncEnvGlobal(fn, args) ==
  IF Len(args) < Len(fn.params)
  THEN Exception("IndexError")
  ELSE [type |-> "ENVIRONMENT", store |-> BindParams(<<>>, fn.params, args, 1),
        outer |-> 1]

\* _ext_func_env: the frame of a call, or the IndexError of args[idx].
_ext_func_env(fn, args) ==
  IF Len(args) < Len(fn.params)
  THEN Exception("IndexError")
  ELSE [type |-> "ENVIRONMENT", store |-> BindParams(<<>>, fn.params, args, 1),
        outer |-> fn.env]

\* A lookup that consults the built-ins table before the environment.
BuiltinsOrEnv(node, env, st) ==
  LET g == EnvGet(st.envs, env, node.value)
  IN IF node.value \in BUILTINS THEN Ev(Builtin(node.value), st)
     ELSE IF g.found THEN Ev(g.val, st)
     ELSE Alloc(_new_error(_UNKNOWN_IDENT, <<node.value>>), st)

\* env[node.value], and on KeyError the built-ins table or the Error.
EnvOrBuiltins(node, env, st) ==
  LET g == EnvGet(st.envs, env, node.value)
  IN IF g.found THEN Ev(g.val, st)
     ELSE IF node.value \in BUILTINS THEN Ev(Builtin(node.value), st)
     ELSE Alloc(_new_error(_UNKNOWN_IDENT, <<node.value>>), st)

_evaluate_identifier(node, env, st) ==
  The({ Ev(r.val, Log(r.st, [ev |-> "identifier", name |-> node.value, env |-> env,
                             envs |-> st.envs, val |-> r.val]))
        : r \in {EnvOrBuiltins(node, env, st)} })

\* ---------------------------------------------------------------- evaluator
\* MaxDepth stands for the host's recursion limit: an application nested
\* deeper ends in RecursionError.
MaxDepth == 3

RECURSIVE evaluate(_, _, _), ProgramLoop(_, _, _, _, _), BlockStatementsLoop(_, _, _, _, _),
          ExprLoop(_, _, _, _, _), ProgramLoopThrough(_, _, _, _, _)

\* _evaluate_program as it would be if a Return did not end the loop.
ProgramLoopThrough(statements, i, res, env, st) ==
  IF i > Len(statements) THEN Ev(IF res # None /\ res.type = "RETURN" THEN res.value ELSE res, st)
  ELSE The({ IF Failed(r) THEN r
             ELSE ProgramLoopThrough(statements, i + 1, r.val, env,
                                     Log(r.st, [ev |-> "stmt", of |-> "Program",
                                                i |-> i, val |-> r.val]))
             : r \in {evaluate(statements[i], env, st)} })

\* The loop of _evaluate_program over statements[i..], res being the last
\* result so far.
ProgramLoop(statements, i, res, env, st) ==
  IF i > Len(statements) THEN Ev(res, st)
  ELSE The({ LET s == Log(r.st, [ev |-> "stmt", of |-> "Program", i |-> i, val |-> r.val])
             IN IF Failed(r) THEN r
                ELSE IF r.val # None /\ r.val.type = "RETURN" THEN Ev(r.val.value, s)
                ELSE IF r.val # None /\ r.val.type = "ERROR" THEN Ev(r.val, s)
                ELSE ProgramLoop(statements, i + 1, r.val, env, s)
             : r \in {evaluate(statements[i], env, st)} })

_evaluate_program(program, env, st) == ProgramLoop(program.statements, 1, None, env, st)

\* The loop of _evaluate_block_statements.
BlockStatementsLoop(statements, i, res, env, st) ==
  IF i > Len(statements) THEN Ev(res, st)
  ELSE The({ LET s == Log(r.st, [ev |-> "stmt", of |-> "Block", i |-> i, val |-> r.val])
             IN IF Failed(r) THEN r
                ELSE IF r.val # None /\ r.val.type \in {"RETURN", "ERROR"} THEN Ev(r.val, s)
                ELSE BlockStatementsLoop(statements, i + 1, r.val, env, s)
             : r \in {evaluate(statements[i], env, st)} })

_evaluate_block_statements(block, env, st) ==
  BlockStatementsLoop(block.statements, 1, None, env, st)

\* The loop of _evaluate_expr; val is the list of objects.
ExprLoop(expressions, i, res, env, st) ==
  IF i > Len(expressions) THEN Ev(res, st)
  ELSE The({ IF Failed(r) THEN r
             ELSE IF r.val = None THEN Raise(r.st, "AssertionError")
             ELSE ExprLoop(expressions, i + 1, Append(res, r.val), env, r.st)
             : r \in {evaluate(expressions[i], env, st)} })

_evaluate_expr(expressions, env, st) == ExprLoop(expressions, 1, <<>>, env, st)

\* _evaluate_if_expr once the condition has evaluated to the object cond,
\* in the memory st.
IfBranches(if_expr, cond, env, st) ==
  IF _is_truthy(cond)
  THEN (IF if_expr.consequence = None THEN Raise(st, "AssertionError")
        ELSE evaluate(if_expr.consequence, env, st))
  ELSE IF if_expr.alternative # None
  THEN evaluate(if_expr.alternative, env, st)
  ELSE Ev(NULL, st)

_evaluate_if_expr(if_expr, env, st) ==
  IF if_expr.condition = None THEN Raise(st, "AssertionError")
  ELSE The({ IF Failed(cond) THEN cond
             ELSE IF cond.val = None THEN Raise(cond.st, "AssertionError")
             ELSE IfBranches(if_expr, cond.val, env,
                             Log(cond.st, [ev |-> "if", cond |-> cond.val]))
             : cond \in {evaluate(if_expr.condition, env, st)} })

\* _apply_func on a Function: the body runs in the new frame; what it
\* returns is unwrapped.
ApplyFunction(fn, args, ext_env, caller, st) ==
  The({ LET s == [evaluated.st EXCEPT !.depth = @ - 1]
            val == _unwrap_return_value(evaluated.val)
        IN IF Failed(evaluated) THEN evaluated
           ELSE IF evaluated.val = None THEN Raise(s, "AssertionError")
           ELSE Ev(val, Log(s, [ev |-> "applied", fn |-> fn, val |-> val,
                                before |-> st.envs, after |-> s.envs]))
        : evaluated \in
            {evaluate(fn.body, Len(st.envs) + 1,
                      Log([st EXCEPT !.envs = Append(@, [store |-> ext_env.store,
                                                         outer |-> ext_env.outer]),
                                     !.depth = @ + 1],
                          [ev |-> "call", fn |-> fn, args |-> args, env |-> caller,
                           frame |-> Len(st.envs) + 1]))} })

\* _apply_func entered with the memory st: the frame is built, then the
\* body runs.
ApplyEntered(fn, args, caller, st) ==
  IF fn.type = "FUNCTION"
  THEN LET ext_env == _ext_func_env(fn, args)
       IN IF ext_env.type = "EXCEPTION" THEN Raise(st, ext_env.name)
          ELSE IF st.depth >= MaxDepth THEN Raise(st, "RecursionError")
          ELSE ApplyFunction(fn, args, ext_env, caller, st)
  ELSE IF fn.type = "BUILTIN"
  THEN The({ Ev(r.val, Log(r.st, [ev |-> "applied", fn |-> fn, val |-> r.val,
                                  before |-> st.envs, after |-> r.st.envs]))
             : r \in {Alloc(length(args),
                            Log(st, [ev |-> "call", fn |-> fn, args |-> args,
                                     env |-> caller, frame |-> 0]))} })
  ELSE Alloc(_new_error(_NOT_A_FUNCTION, <<fn.type>>), st)

_apply_func(fn, args, caller, st) ==
  ApplyEntered(fn, args, caller, Log(st, [ev |-> "apply", fn |-> fn, args |-> args]))

\* evaluate on a Prefix node whose operand evaluated to `right`.
EvaluatePrefix(node, right) ==
  IF Failed(right) THEN right
  ELSE IF right.val = None THEN Raise(right.st, "AssertionError")
  ELSE The({ Ev(r.val, Log(r.st, [ev |-> "prefix", operator |-> node.operator,
                                  right |-> right.val, val |-> r.val]))
             : r \in {Outcome(_evaluate_prefix_expr(node.operator, right.val), right.st)} })

\* An evaluator that leaves the right operand of `&&` and `||` alone when
\* the left one decides.
EvaluateInfixShortCircuit(node, left, right) ==
  IF /\ left.val # None
     /\ left.val.type = "BOOLEAN"
     /\ \/ node.operator = <<"&", "&">> /\ ~left.val.value
        \/ node.operator = <<"|", "|">> /\ left.val.value
  THEN The({ Ev(r.val, Log(r.st, [ev |-> "infix", operator |-> node.operator,
                                  left |-> left.val, right |-> left.val,
                                  val |-> r.val]))
             : r \in {Ev(left.val, left.st)} })
  ELSE IF Failed(right) THEN right
  ELSE IF left.val = None \/ right.val = None THEN Raise(right.st, "AssertionError")
  ELSE The({ IF Failed(r) THEN r
             ELSE Ev(r.val, Log(r.st, [ev |-> "infix", operator |-> node.operator,
                                       left |-> left.val, right |-> right.val,
                                       val |-> r.val]))
             : r \in {Outcome(_evaluate_infix_expr(node.operator, left.val, right.val),
                              right.st)} })

\* evaluate on an Infix node whose operands evaluated to `left` and `right`.
EvaluateInfix(node, left, right) ==
  IF Failed(right) THEN right
  ELSE IF left.val = None \/ right.val = None THEN Raise(right.st, "AssertionError")
  ELSE The({ IF Failed(r) THEN r
             ELSE Ev(r.val, Log(r.st, [ev |-> "infix", operator |-> node.operator,
                                       left |-> left.val, right |-> right.val,
                                       val |-> r.val]))
             : r \in {Outcome(_evaluate_infix_expr(node.operator, left.val, right.val),
                              right.st)} })

evaluate(node, env, st) ==
  CASE node.kind = "Program" -> _evaluate_program(node, env, st)
    [] node.kind = "ExpressionStatement" ->
         IF node.expression = None THEN Raise(st, "AssertionError")
         ELSE evaluate(node.expression, env, st)
    [] node.kind = "Integer" -> Ev(Integer(node.value), st)
    [] node.kind = "Boolean" -> Alloc(_to_boolean_object(node.value), st)
    [] node.kind = "Prefix" ->
         IF node.right = None THEN Raise(st, "AssertionError")
         ELSE EvaluatePrefix(node, evaluate(node.right, env, st))
    [] node.kind = "Infix" ->
         IF node.left = None \/ node.right = None THEN Raise(st, "AssertionError")
         ELSE The({ IF Failed(left) THEN left
                    ELSE EvaluateInfix(node, left, evaluate(node.right, env, left.st))
                    : left \in {evaluate(node.left, env, st)} })
    [] node.kind = "Block" -> _evaluate_block_statements(node, env, st)
    [] node.kind = "If" -> _evaluate_if_expr(node, env, st)
    [] node.kind = "ReturnStatement" ->
         IF node.return_value = None THEN Raise(st, "AssertionError")
         ELSE The({ IF Failed(value) THEN value
                    ELSE IF value.val = None THEN Raise(value.st, "AssertionError")
                    ELSE Alloc(Return(value.val), value.st)
                    : value \in {evaluate(node.return_value, env, st)} })
    [] node.kind = "LetStatement" ->
         IF node.value = None THEN Raise(st, "AssertionError")
         ELSE The({ IF Failed(value) THEN value
                    ELSE IF value.val = None \/ node.name = None
                    THEN Raise(value.st, "AssertionError")
                    ELSE Ev(value.val,
                            Log(EnvSet(value.st, env, node.name.value, value.val),
                                [ev |-> "let", env |-> env, name |-> node.name.value,
                                 val |-> value.val]))
                    : value \in {evaluate(node.value, env, st)} })
    [] node.kind = "Identifier" -> _evaluate_identifier(node, env, st)
    [] node.kind = "Function" ->
         IF node.body = None THEN Raise(st, "AssertionError")
         ELSE LET func == Alloc([type |-> "FUNCTION", params |-> node.params,
                                 body |-> node.body, env |-> env, name |-> node.name,
                                 id |-> 0], st)
                  made == Log(func.st, [ev |-> "function", fn |-> func.val, env |-> env])
              IN IF node.name # None
                 THEN Ev(func.val, EnvSet(made, env, node.name.value, func.val))
                 ELSE Ev(func.val, made)
    [] node.kind = "Call" ->
         IF node.func = None THEN Raise(st, "AssertionError")
         ELSE The({ IF Failed(function) THEN function
                    ELSE IF function.val = None \/ node.args = None
                    THEN Raise(function.st, "AssertionError")
                    ELSE The({ IF Failed(args) THEN args
                               ELSE _apply_func(function.val, args.val, env, args.st)
                               : args \in {_evaluate_expr(node.args.items, env,
                                                          function.st)} })
                    : function \in {evaluate(node.func, env, st)} })
    [] node.kind = "StringLiteral" -> Ev(String(node.value), st)
    [] OTHER -> Ev(None, st)

\* ------------------------------------------------------------------ sources
\* Source texts are written as sequences of words; Chars spells a word out
\* as characters (a word not listed is a single character).
Chars(word) ==
  CASE word = "let" -> <<"l", "e", "t">>
    [] word = "return" -> <<"r", "e", "t", "u", "r", "n">>
    [] word = "if" -> <<"i", "f">>
    [] word = "else" -> <<"e", "l", "s", "e">>
    [] word = "function" -> <<"f", "u", "n", "c", "t", "i", "o", "n">>
    [] word = "true" -> <<"t", "r", "u", "e">>
    [] word = "false" -> <<"f", "a", "l", "s", "e">>
    [] word = "length" -> <<"l", "e", "n", "g", "t", "h">>
    [] word = "and" -> <<"a", "n", "d">>
    [] word = "or" -> <<"o", "r">>
    [] word = "xor" -> <<"x", "o", "r">>
    [] word = "==" -> <<"=", "=">>
    [] word = "!=" -> <<"!", "=">>
    [] word = "<=" -> <<"<", "=">>
    [] word = ">=" -> <<">", "=">>
    [] word = "&&" -> <<"&", "&">>
    [] word = "||" -> <<"|", "|">>
    [] word = "''" -> <<"'", "'">>
    [] word = "'a'" -> <<"'", "a", "'">>
    [] word = "'ab'" -> <<"'", "a", "b", "'">>
    [] word = "\"a\"" -> <<"\"", "a", "\"">>
    [] word = "exit()" -> <<"e", "x", "i", "t", "(", ")">>
    [] word = "clean()" -> <<"c", "l", "e", "a", "n", "(", ")">>
    [] word = "show()" -> <<"s", "h", "o", "w", "(", ")">>
    [] OTHER -> <<word>>

RECURSIVE Join(_)
\* ' '.join(words), as characters.
Join(words) ==
  IF words = <<>> THEN <<>>
  ELSE IF Len(words) = 1 THEN Chars(words[1])
  ELSE Chars(words[1]) \o <<" ">> \o Join(Tail(words))

\* The newest text alone, in the place of the joined list.
JoinLast(lines) == IF lines = <<>> THEN <<>> ELSE lines[Len(lines)]

RECURSIVE JoinLines(_)
\* ' '.join(scanned) on a list of texts.
JoinLines(lines) ==
  IF lines = <<>> THEN <<>>
  ELSE IF Len(lines) = 1 THEN lines[1]
  ELSE lines[1] \o <<" ">> \o JoinLines(Tail(lines))

\* list.remove(x): the list without its first element equal to x.
RECURSIVE remove(_, _)
remove(list, x) ==
  IF list = <<>> THEN <<>>
  ELSE IF Head(list) = x THEN Tail(list)
  ELSE <<Head(list)>> \o remove(Tail(list), x)

\* ------------------------------------------------------------ program texts
\* The bounds of the input families.
MaxStmts == 2
MaxSoup == 3
MaxInputs == 3

\* Every sequence over `set` of length 1..n.
RECURSIVE SeqsUpTo(_, _)
SeqsUpTo(set, n) ==
  IF n = 0 THEN {}
  ELSE LET shorter == SeqsUpTo(set, n - 1)
       IN {<<x>> : x \in set} \cup shorter \cup {s \o <<x>> : s \in shorter, x \in set}

RECURSIVE Flatten(_)
Flatten(seqs) == IF seqs = <<>> THEN <<>> ELSE Head(seqs) \o Flatten(Tail(seqs))

Prefixes(words) == { SubSeq(words, 1, n) : n \in 0..Len(words) }

\* The words that lex to a binary operator of the precedence table.
BinaryWords ==
  { "+", "-", "*", "/", "<", ">", "==", "!=", "<=", ">=", "&&", "||", "^",
    "and", "or", "xor" }

\* One expression for each runtime type an operand can have: two Integers,
\* a Boolean, a String, NULL, a Function, a Builtin, an Error and a Return
\* wrapper.
Operands ==
  { <<"0">>, <<"2">>, <<"true">>, <<"'a'">>,
    <<"if", "(", "false", ")", "{", "1", "}">>,
    <<"function", "(", ")", "{", "1", "}">>,
    <<"length">>,
    <<"x">>,
    <<"if", "(", "true", ")", "{", "return", "1", "}">> }

InfixPrograms == { l \o <<op>> \o r : l \in Operands, op \in BinaryWords, r \in Operands }

\* Operands and arguments whose evaluation shows: each is a prefix
\* expression, some of them evaluating to an Error.
OrderInfixPrograms ==
  { <<"!", l, op, "-", r>> : l \in {"true", "false", "x"}, op \in BinaryWords,
                             r \in {"2", "true"} }

\* Expressions whose value is a Boolean: literals, comparisons of Integers
\* and of Strings, negations, the value a function returns.
BooleanOperands ==
  { <<"true">>, <<"false">>, <<"(", "0", "<", "2", ")">>, <<"(", "'a'", "!=", "'a'", ")">>,
    <<"!", "0">>, <<"function", "(", ")", "{", "false", "}", "(", ")">> }

\* Two of them compared, and a Boolean read from a binding compared.
BooleanPrograms ==
  { a \o <<op>> \o b : a \in BooleanOperands, op \in {"==", "!="}, b \in BooleanOperands }
    \cup { <<"let", "t", "=">> \o a \o <<";", "t", op>> \o b :
             a \in {<<"(", "0", "<", "2", ")">>, <<"!", "0">>}, op \in {"==", "!="},
             b \in {<<"true">>, <<"false">>, <<"t">>} }

\* Conditions of every runtime type: Integers with 0, Strings with the
\* empty one, the Booleans, NULL, an Error, a Builtin and a Function.
Conditions ==
  { <<"0">>, <<"2">>, <<"''">>, <<"'a'">>, <<"true">>, <<"false">>, <<"1", ">", "2">>,
    <<"if", "(", "false", ")", "{", "1", "}">>, <<"x">>, <<"length">>,
    <<"function", "(", ")", "{", "1", "}">> }

\* An if-expression whose blocks show when they run, with and without the
\* else block.
IfElsePrograms ==
  { <<"if", "(">> \o c \o <<")", "{", "-", "1", "}", "else", "{", "-", "2", "}">> :
      c \in Conditions }

IfPrograms == { <<"if", "(">> \o c \o <<")", "{", "-", "1", "}">> : c \in Conditions }

\* Divisions of Integers of either sign by non-zero Integers of either
\* sign, exact and inexact.
DivisionPrograms ==
  { sa \o <<a, "/">> \o sb \o <<b>> : sa \in {<<>>, <<"-">>}, a \in {"0", "1", "6", "7"},
                                       sb \in {<<>>, <<"-">>}, b \in {"1", "2", "3"} }

\* A String on the left of every binary operator, with a String (equal
\* or not, the empty one, one written with the other quote) or an Integer
\* (positive, zero, negative) on the right.
StringPrograms ==
  { <<l, op>> \o r : l \in {"'a'", "''", "'ab'"}, op \in BinaryWords,
                     r \in {<<"'a'">>, <<"\"a\"">>, <<"''">>, <<"0">>, <<"2">>, <<"-", "1">>} }

\* A Boolean and a Function called with two such arguments.
OrderCallPrograms ==
  { callee \o <<"(", "-", a, ",", "-", b, ")">> :
      callee \in { <<"(", "!", "true", ")">>,
                   <<"function", "(", "x", ",", "y", ")", "{", "x", "}">> },
      a \in {"true", "1"}, b \in {"true", "2"} }

\* length called with no argument, with one argument of every runtime
\* type, and with two and three arguments, Strings and others.
LengthPrograms ==
  { <<"length", "(", ")">> }
    \cup { <<"length", "(">> \o a \o more \o <<")">> :
             a \in { <<"''">>, <<"'a'">>, <<"'ab'">>, <<"\"a\"">>, <<"0">>, <<"true">>,
                     <<"length">>, <<"x">>,
                     <<"if", "(", "false", ")", "{", "1", "}">>,
                     <<"function", "(", ")", "{", "1", "}">>,
                     <<"if", "(", "true", ")", "{", "return", "1", "}">> },
             more \in { <<>>, <<",", "'a'">>, <<",", "2">>, <<",", "'a'", ",", "x">> } }

\* A function whose body binds names, one of them bound outside as well,
\* by a let, by a let in a block, by a named function and in a call of its
\* own; with and without a parameter of the outside name; called, and the
\* outside name read after the call.
FramePrograms ==
  { <<"let", "a", "=", "1", ";", "let", "f", "=", "function", "(">> \o param[1]
      \o <<")", "{">> \o body \o <<"}", ";", "f", "(">> \o param[2] \o <<")", ";", "a">> :
      param \in { <<<<>>, <<>>>>, <<<<"a">>, <<"7">>>> },
      body \in { <<"let", "a", "=", "2", ";", "a">>,
                 <<"let", "b", "=", "3", ";", "b">>,
                 <<"function", "a", "(", ")", "{", "1", "}", ";", "a">>,
                 <<"function", "h", "(", ")", "{", "let", "a", "=", "4", ";", "a", "}", ";",
                   "h", "(", ")">>,
                 <<"if", "(", "true", ")", "{", "let", "a", "=", "5", ";", "}", "a">>,
                 <<"function", "(", "a", ")", "{", "let", "b", "=", "a", ";", "b", "}",
                   "(", "6", ")", ";", "a">> } }

\* Names read where a frame, an outer frame, only the built-ins table or
\* nothing defines them: `length` bound by a let, as a parameter and in an
\* outer frame, read inside and outside a function, and an unbound name.
ShadowPrograms ==
  { bind \o use : bind \in { <<>>, <<"let", "length", "=", "1", ";">>,
                              <<"let", "x", "=", "2", ";">> },
                  use \in { <<"length">>, <<"x">>, <<"length", "(", "'a'", ")">>,
                            <<"function", "(", ")", "{", "length", "}", "(", ")">>,
                            <<"function", "(", "length", ")", "{", "length", "}", "(", "'a'", ")">>,
                            <<"function", "(", "x", ")", "{", "function", "(", ")", "{", "x", "}",
                              "}", "(", "3", ")", "(", ")">>,
                            <<"function", "(", ")", "{", "let", "length", "=", "4", ";",
                              "function", "(", ")", "{", "length", "}", "}", "(", ")", "(", ")">>,
                            <<"function", "(", ")", "{", "let", "y", "=", "5", ";", "}", "(", ")",
                              ";", "y">> } }

\* The statements programs are composed of.
Statements ==
  { <<"let", "a", "=", "1", ";">>,
    <<"a", ";">>,
    <<"return", "a", ";">>,
    <<"if", "(", "true", ")", "{", "if", "(", "true", ")", "{", "return", "2", ";", "}",
      "return", "0", ";", "}", ";">>,
    <<"let", "b", "=", "2", ";">>,
    <<"if", "(", "true", ")", "{", "x", ";", "let", "c", "=", "3", ";", "}", ";">>,
    <<"if", "(", "a", ")", "{", "if", "(", "true", ")", "{", "y", "}", "let", "d", "=", "4",
      "}", "else", "{", "5", "}", ";">>,
    <<"let", "f", "=", "function", "(", ")", "{", "a", "}", ";">>,
    <<"function", "(", ")", "{", "let", "a", "=", "2", ";", "f", "(", ")", "}", "(", ")", ";">>,
    <<"let", "k", "=", "function", "(", "x", ")", "{",
      "function", "(", "y", ")", "{", "x", "+", "y", "}", "}", ";">>,
    <<"k", "(", "1", ")", "(", "2", ")", ";">>,
    <<"k", "(", ")", ";">>,
    <<"let", "g", "=", "function", "(", "n", ")", "{", "g", "(", "n", ")", "}", ";">>,
    <<"g", "(", "1", ")", ";">>,
    <<"1", "/", "0", ";">>,
    <<"if", "(", "true", ")", "{", "}", "+", "1", ";">>,
    <<"let", "e", "=", "if", "(", "true", ")", "{", "}", ";">>,
    <<"let", "r", "=", "if", "(", "true", ")", "{", "return", "1", "}", ";">>,
    <<"return", "if", "(", "true", ")", "{", "return", "1", "}", ";">>,
    <<"!", "if", "(", "true", ")", "{", "x", "}", ";">>,
    <<"length", "(", "if", "(", "true", ")", "{", "return", "1", "}", ")", ";">>,
    <<"function", "(", "p", ")", "{", "p", "}", "(", "if", "(", "true", ")", "{", "return",
      "1", "}", ")", ";">>,
    <<"function", "(", ")", "{", "if", "(", "true", ")", "{", "return", "7", "}", "8", "}",
      "(", ")", ";">>,
    <<"function", "(", ")", "{", "return", "if", "(", "true", ")", "{", "return", "1", "}",
      "}", "(", ")", ";">> }

\* The texts the interpreter is run on: the families above and every
\* sequence of at most MaxStmts statements.
Sources ==
  { Join(words) : words \in InfixPrograms
                             \cup { Flatten(ss) : ss \in SeqsUpTo(Statements, MaxStmts) }
                             \cup OrderInfixPrograms
                             \cup OrderCallPrograms \cup BooleanPrograms
                             \cup IfElsePrograms \cup IfPrograms \cup DivisionPrograms
                             \cup StringPrograms \cup LengthPrograms
                             \cup FramePrograms \cup ShadowPrograms }

\* Texts for the parser alone: operator chains, prefix operators and calls
\* among them, every truncation of some nested constructs, and every short
\* sequence of delimiters, operators, keywords and operands.
OperatorChains ==
  { <<"a", op1, "b", op2, "c">> : op1 \in BinaryWords, op2 \in BinaryWords }
    \cup { <<pre, "a", op, "b">> : pre \in {"-", "!"}, op \in BinaryWords }
    \cup { <<"a", op, pre, "b">> : pre \in {"-", "!"}, op \in BinaryWords }
    \cup { <<pre, "f", "(", "a", ")">> : pre \in {"-", "!"} }
    \cup { <<pre, "f", "(", "a", ")", op, "b">> : pre \in {"-", "!"}, op \in BinaryWords }

Truncated ==
  Prefixes(<<"let", "f", "=", "function", "(", "a", ",", "b", ")", "{", "if", "(", "a", "<",
             "(", "b", "+", "1", ")", ")", "{", "return", "g", "(", "a", ",", "-", "b", ")",
             ";", "}", "else", "{", "!", "a", "}", "}", ";">>)
    \cup Prefixes(<<"function", "h", "(", "x", ")", "{", "x", "(", "1", ",", "(", "2", ")",
                    ")", "}", "(", "'a'", ",", "3", ")">>)

\* Constructs opened one inside the other, as deep as the host allows and
\* one deeper.
Nested ==
  { Flatten([i \in 1..n |-> w]) : n \in 1..MaxParseDepth,
      w \in { <<"(">>, <<"-">>, <<"f", "(">>, <<"if", "(">>, <<"1", "+">> } }

\* Single expressions made of Integer literals, identifiers, the binary
\* operators, the prefix operators and parentheses: two operators with and
\* without a group, a prefix operator before and inside an operation and
\* before a group, and operators, prefix operators and parentheses in a row
\* up to the host's limit.
ExpressionPrograms ==
  { <<"a", op1, "b", op2, "1">> : op1 \in BinaryWords, op2 \in BinaryWords }
    \cup { <<"(", "a", op1, "b", ")", op2, "7">> : op1 \in BinaryWords, op2 \in {"*", "-", "=="} }
    \cup { <<"a", op1, "(", "b", op2, "7", ")">> : op1 \in BinaryWords, op2 \in {"*", "-", "=="} }
    \cup { <<pre, "a", op, "b">> : pre \in {"-", "!"}, op \in BinaryWords }
    \cup { <<"a", op, pre, "b">> : pre \in {"-", "!"}, op \in BinaryWords }
    \cup { <<pre, "(", "a", op, "b", ")">> : pre \in {"-", "!"}, op \in BinaryWords }
    \cup { <<"1">> \o Flatten([i \in 1..n |-> <<"+", "1">>]) : n \in 1..MaxParseDepth }
    \cup { Flatten([i \in 1..n |-> <<pre>>]) \o <<"1">> : n \in 1..(MaxParseDepth - 1),
                                                         pre \in {"-", "!"} }
    \cup { Flatten([i \in 1..n |-> <<"(">>]) \o <<"a">> \o Flatten([i \in 1..n |-> <<")">>]) :
             n \in 1..(MaxParseDepth - 1) }

\* A function literal, anonymous and named, with every kind of token in a
\* parameter position: identifiers, literals, keywords, operators,
\* delimiters, and parameters with no comma or no name between them.
ParamPrograms ==
  { <<"function">> \o name \o <<"(">> \o params \o <<")", "{", "1", "}">> :
      name \in { <<>>, <<"f">> },
      params \in { <<>>, <<"a">>, <<"a", ",", "b">>, <<"1">>, <<"a", ",", "1">>,
                   <<"1", ",", "a">>, <<"true">>, <<"'a'">>, <<"if">>, <<"let">>,
                   <<"function">>, <<"+">>, <<"(">>, <<"{">>, <<",">>, <<";">>,
                   <<"a", ",">>, <<"a", "b">>, <<"a", ",", ",", "b">>, <<"a", ",", ")">> } }

ParserSources ==
  { Join(words) : words \in OperatorChains \cup Truncated \cup Nested
                            \cup ExpressionPrograms \cup ParamPrograms
                            \cup SeqsUpTo({ "(", ")", "{", "}", ",", ";", "1", "a", "+", "-",
                                            "let", "=", "if", "function" }, MaxSoup) }

\* Texts for the lexer alone: every string of at most MaxChars characters
\* over the characters that open operators, a letter, a digit, a blank, the
\* two quotes and characters of no token; next_token is called up to
\* MaxMoreCalls times beyond a text's length.
MaxChars == 3
MaxMoreCalls == 2

LexerSources ==
  {<<>>} \cup SeqsUpTo({ "=", "!", "<", ">", "&", "|", "+", "a", "1", " ", "'", "\"", "@" },
                       MaxChars)

\* The lines typed at the prompt.
Lines ==
  { Join(words) : words \in
      { <<"length", "(", "''", ")">>,
        <<"let", "length", "=", "1", ";">>,
        <<"let", "x", "=", "1", ";">>,
        <<"x", "+", "1">>,
        <<"let", "x", "=", "true", ";">>,
        <<"let", "a", "=", "1", ";">>,
        <<"a", ";">>,
        <<"1", "+">>,
        <<"1", "/", "0">>,
        <<"show()">>,
        <<"clean()">> } }

\* ------------------------------------------------------------ state machine
\* pc        where the run is: "source" (a text, nothing built), "parse"
\*           (inside the loop of parse_program), "parsed", "raised" (an
\*           exception left parse_program), "evaluated";
\*           for the REPL "prompt", "exit" and "crashed"
\* source    the text handed to the lexer
\* parser    the Parser, None before it is built
\* program   the Program parse_program builds
\* evaluated what evaluate returned (None for Python's None)
\* memory    the evaluator's memory after the run
\* scanned   the REPL's session history
\* printed   what the REPL printed for the last input
\* inputs    how many lines the REPL has read
\* lexer     a Lexer that is driven directly, None when there is none
\* token     what its last call of next_token returned, None before the first
\* calls     how many times next_token has been called on it
VARIABLES pc, source, parser, program, evaluated, memory, scanned, printed, inputs,
          lexer, token, calls

vars ==
  <<pc, source, parser, program, evaluated, memory, scanned, printed, inputs,
    lexer, token, calls>>

Start(text) ==
  /\ pc = "source"
  /\ source = text
  /\ parser = None
  /\ program = None
  /\ evaluated = None
  /\ memory = NewState
  /\ scanned = <<>>
  /\ printed = <<>>
  /\ inputs = 0
  /\ lexer = None
  /\ token = None
  /\ calls = 0

\* Parser(Lexer(source)) and the entry of parse_program.
Construct ==
  /\ pc = "source"
  /\ parser' = Parser(source)
  /\ program' = [kind |-> "Program", statements |-> <<>>]
  /\ pc' = "parse"
  /\ UNCHANGED <<source, evaluated, memory, scanned, printed, inputs, lexer, token, calls>>

\* One turn of the loop of parse_program; an exception that nothing catches
\* ends parse_program.
ParseTurn ==
  /\ pc = "parse"
  /\ _current_token(parser).token_type # "EOF"
  /\ \E s \in {ParseProgramStep(parser, program.statements)} :
       /\ parser' = s.p
       /\ program' = [program EXCEPT !.statements = s.node]
       /\ pc' = IF Raised(s) THEN "raised" ELSE pc
  /\ UNCHANGED <<source, evaluated, memory, scanned, printed, inputs, lexer, token, calls>>

\* The loop of parse_program ends at EOF and the Program is returned.
ParseReturn ==
  /\ pc = "parse"
  /\ _current_token(parser).token_type = "EOF"
  /\ pc' = "parsed"
  /\ UNCHANGED <<source, parser, program, evaluated, memory, scanned, printed, inputs,
               lexer, token, calls>>

\* evaluate(program, Environment()) on a program parsed without errors.
Evaluate ==
  /\ pc = "parsed"
  /\ parser.errors = <<>>
  /\ \E r \in {evaluate(program, 1, NewState)} :
       /\ evaluated' = r.val
       /\ memory' = r.st
  /\ pc' = "evaluated"
  /\ UNCHANGED <<source, parser, program, scanned, printed, inputs, lexer, token, calls>>

\* The body of the loop of start_repl on an ordinary line: `parsed` is
\* what parse_program made of the joined history and r what evaluate made
\* of that; r counts only when there are no parse errors.
ReadEvalPrint(line, appended, parsed, r) ==
  /\ source' = JoinLines(appended)
  /\ parser' = parsed.p
  /\ program' = parsed.node
  /\ IF Raised(parsed)
     THEN /\ pc' = "crashed"
          /\ printed' = [out |-> "Traceback", exception |-> parsed.p.raised]
          /\ scanned' = appended
          /\ UNCHANGED <<evaluated, memory>>
     ELSE IF Len(parsed.p.errors) > 0
     THEN /\ printed' = [out |-> "errors", errors |-> parsed.p.errors]
          /\ scanned' = remove(appended, line)
          /\ UNCHANGED <<pc, evaluated, memory>>
     ELSE /\ evaluated' = r.val
          /\ memory' = r.st
          /\ IF Failed(r)
             THEN /\ pc' = "crashed"
                  /\ printed' = [out |-> "Traceback", exception |-> r.st.exc]
                  /\ scanned' = appended
             ELSE IF r.val # None
             THEN /\ printed' = [out |-> "Inspect", object |-> r.val]
                  /\ scanned' = IF r.val.type = "ERROR"
                                THEN remove(appended, line)
                                ELSE appended
                  /\ pc' = pc
             ELSE /\ printed' = [out |-> "Not implemented yet!"]
                  /\ scanned' = appended
                  /\ pc' = pc

\* One turn of the loop of start_repl on an input line other than exit().
Input(line) ==
  /\ pc = "prompt"
  /\ inputs < MaxInputs
  /\ line # Chars("exit()")
  /\ inputs' = inputs + 1
  /\ UNCHANGED <<lexer, token, calls>>
  /\ IF line = Chars("clean()")
     THEN /\ printed' = [out |-> "clear"]
          /\ UNCHANGED <<pc, source, parser, program, evaluated, memory, scanned>>
     ELSE IF line = Chars("show()")
     THEN /\ printed' = [out |-> "scanned", scanned |-> scanned]
          /\ UNCHANGED <<pc, source, parser, program, evaluated, memory, scanned>>
     ELSE \E parsed \in {parse_program(Parser(JoinLines(Append(scanned, line))))} :
            \E r \in {IF Raised(parsed) \/ Len(parsed.p.errors) > 0 THEN Ev(None, NewState)
                      ELSE evaluate(parsed.node, 1, NewState)} :
              ReadEvalPrint(line, Append(scanned, line), parsed, r)

\* The input exit() ends the loop.
Exit ==
  /\ pc = "prompt"
  /\ pc' = "exit"
  /\ UNCHANGED <<source, parser, program, evaluated, memory, scanned, printed, inputs,
               lexer, token, calls>>

Init == \E text \in Sources : Start(text)

Next == Construct \/ ParseTurn \/ ParseReturn \/ Evaluate

\* A text is lexed, parsed and, when it parsed without errors, evaluated in
\* a fresh environment.
Spec == Init /\ [][Next]_vars

\* The Program that parsed without errors is printed with str(program), the
\* text is parsed once more and what that gives is printed in turn.
PrintReparse ==
  /\ pc = "parsed"
  /\ parser.errors = <<>>
  /\ \E first \in {Printed(R(program, parser))} :
       printed' = [out |-> "str", first |-> first,
                   second |-> IF first.raised # "" THEN first
                              ELSE Printed(parse_program(Parser(first.text)))]
  /\ pc' = "printed"
  /\ UNCHANGED <<source, parser, program, evaluated, memory, scanned, inputs,
                 lexer, token, calls>>

InitParser == \E text \in ParserSources : Start(text)

NextParser == Construct \/ ParseTurn \/ ParseReturn \/ PrintReparse

\* The parser alone, on well-formed and malformed texts.
SpecParser == InitParser /\ [][NextParser]_vars

InitRepl ==
  /\ pc = "prompt"
  /\ source = <<>>
  /\ parser = None
  /\ program = None
  /\ evaluated = None
  /\ memory = NewState
  /\ scanned = <<>>
  /\ printed = <<>>
  /\ inputs = 0
  /\ lexer = None
  /\ token = None
  /\ calls = 0

\* A session of the REPL.
SpecRepl == InitRepl /\ [][(\E line \in Lines : Input(line)) \/ Exit]_vars

\* A Lexer on the text, before the first call of next_token.
StartLexer(text) ==
  /\ pc = "lex"
  /\ source = text
  /\ parser = None
  /\ program = None
  /\ evaluated = None
  /\ memory = NewState
  /\ scanned = <<>>
  /\ printed = <<>>
  /\ inputs = 0
  /\ lexer = Lexer(text)
  /\ token = None
  /\ calls = 0

\* One call of lexer.next_token(), up to MaxMoreCalls calls beyond the
\* text's length.
NextToken ==
  /\ pc = "lex"
  /\ calls < Len(source) + MaxMoreCalls
  /\ \E r \in {next_token(lexer)} :
       /\ token' = r.tok
       /\ lexer' = r.l
  /\ calls' = calls + 1
  /\ UNCHANGED <<pc, source, parser, program, evaluated, memory, scanned, printed, inputs>>

InitLexer == \E text \in LexerSources : StartLexer(text)

\* The lexer alone, called again and again on one text.
SpecLexer == InitLexer /\ [][NextToken]_vars

\* ------------------------------------------------------------------- claims
\* The texts of the families that claims are about.
WordForms == { Chars("and"), Chars("or"), Chars("xor") }

AssignSources == { Join(<<l, "=", r>>) : l \in {"a", "1"}, r \in {"a", "1"} }

SymbolForms == { Chars("&&"), Chars("||"), Chars("^") }

SymbolSources ==
  { Join(l \o <<w>> \o r) : l \in Operands, w \in {"&&", "||", "^"}, r \in Operands }

WordSources ==
  { Join(l \o <<w>> \o r) : l \in Operands, w \in {"and", "or", "xor"}, r \in Operands }

OrderInfixSources == { Join(words) : words \in OrderInfixPrograms }

OrderCallSources == { Join(words) : words \in OrderCallPrograms }

IfElseSources == { Join(words) : words \in IfElsePrograms }

IfSources == { Join(words) : words \in IfPrograms }

ExpressionSources == { Join(words) : words \in ExpressionPrograms }

\* Whether an evaluation's result is an object of the given type (Python's
\* None is no object).
HasType(obj, type) == obj # None /\ obj.type = type

\* Whether two results are the same object: equal values for Integers,
\* Booleans and Strings, the same identity otherwise.
Same(a, b) ==
  IF a = None \/ b = None THEN a = None /\ b = None
  ELSE /\ a.type = b.type
       /\ CASE a.type \in {"INTEGER", "BOOLEAN", "STRING"} -> a.value = b.value
            [] a.type \in {"ERROR", "RETURN", "FUNCTION"} -> a.id = b.id
            [] OTHER -> a = b

\* The events of the run's history.
Events == memory.log

\* C1: for every program that parses with no parse errors,
\* evaluate(program, fresh environment) completes and returns an Object and
\* never ends in a native failure (an exception or a failed assertion),
\* also when it divides by zero, calls a function with too few arguments
\* or uses an if-expression with an empty block as an operand or let value.
C1_EvaluateNeverFailsNatively ==
  pc = "evaluated" => memory.exc = ""

\* C2: Return wrappers stay internal to the evaluator: the result of the
\* Program and of every function call is never a Return wrapper, and no
\* Return wrapper is bound to a name, passed as an argument or used as an
\* operand of a prefix or infix operator.
C2_ReturnStaysInternal ==
  pc = "evaluated" =>
    /\ ~HasType(evaluated, "RETURN")
    /\ \A env \in 1..Len(memory.envs) :
         \A key \in DOMAIN memory.envs[env].store :
           ~HasType(memory.envs[env].store[key], "RETURN")
    /\ \A e \in DOMAIN Events : LET event == Events[e] IN
         CASE event.ev = "applied" -> ~HasType(event.val, "RETURN")
           [] event.ev = "call" ->
                \A a \in 1..Len(event.args) : ~HasType(event.args[a], "RETURN")
           [] event.ev = "prefix" -> ~HasType(event.right, "RETURN")
           [] event.ev = "infix" ->
                ~HasType(event.left, "RETURN") /\ ~HasType(event.right, "RETURN")
           [] event.ev = "let" -> ~HasType(event.val, "RETURN")
           [] OTHER -> TRUE

\* C3: in the REPL an input that is rejected (the joined source has parse
\* errors, or its evaluation result is an Error) leaves the session history
\* exactly as it was before that input, also when the rejected line equals
\* a line already in the history.
C3_RejectedInputLeavesHistory ==
  [][(/\ inputs' = inputs + 1
      /\ \/ printed'.out = "errors"
         \/ printed'.out = "Inspect" /\ printed'.object.type = "ERROR")
     => scanned' = scanned]_vars

\* C4: parse_program terminates for every source text, malformed and
\* truncated input included: it returns a Program after finitely many token
\* advances and never raises; every syntax problem is recorded in
\* parser.errors instead.
C4_ParseProgramNeverRaises ==
  pc \in {"parse", "parsed", "raised"} => pc # "raised" /\ parser.raised = ""

RECURSIVE Complete(_)
\* No statement of the node, or of a Block anywhere inside it, has an absent
\* child.
Complete(node) ==
  CASE node.kind \in {"Program", "Block"} ->
         \A i \in 1..Len(node.statements) : Complete(node.statements[i])
    [] node.kind = "ExpressionStatement" ->
         node.expression # None /\ Complete(node.expression)
    [] node.kind = "ReturnStatement" ->
         node.return_value # None /\ Complete(node.return_value)
    [] node.kind = "LetStatement" ->
         node.name # None /\ node.value # None /\ Complete(node.value)
    [] node.kind = "Prefix" -> Complete(node.right)
    [] node.kind = "Infix" -> Complete(node.left) /\ Complete(node.right)
    [] node.kind = "If" ->
         Complete(node.condition) /\ Complete(node.consequence)
           /\ Complete(node.alternative)
    [] node.kind = "Function" -> Complete(node.body)
    [] node.kind = "Call" -> Complete(node.func) /\ Complete(node.args)
    [] node.kind = "list" -> \A i \in 1..Len(node.items) : Complete(node.items[i])
    [] OTHER -> TRUE

\* C5: a construct whose parsing yields no node is omitted from the
\* statement list: after parse_program no statement of Program.statements
\* or of any Block.statements has an absent child.
C5_NoStatementWithAbsentChild ==
  pc = "parsed" => Complete(program)

RECURSIVE Shape(_)
\* A node of the tree without its tokens.
Shape(node) ==
  CASE node.kind = "Identifier" -> [kind |-> "Identifier", value |-> node.value]
    [] node.kind = "Prefix" ->
         [kind |-> "Prefix", operator |-> node.operator, right |-> Shape(node.right)]
    [] node.kind = "Infix" ->
         [kind |-> "Infix", operator |-> node.operator, left |-> Shape(node.left),
          right |-> Shape(node.right)]
    [] node.kind = "Call" ->
         [kind |-> "Call", func |-> Shape(node.func),
          args |-> IF node.args = None THEN <<>>
                   ELSE [i \in 1..Len(node.args.items) |-> Shape(node.args.items[i])]]
    [] node.kind = "ExpressionStatement" ->
         [kind |-> "ExpressionStatement", expression |-> Shape(node.expression)]
    [] node.kind = "Program" ->
         [kind |-> "Program",
          statements |-> [i \in 1..Len(node.statements) |-> Shape(node.statements[i])]]
    [] OTHER -> [kind |-> node.kind]

\* The trees the claim speaks of.
Name(word) == [kind |-> "Identifier", value |-> Chars(word)]

Unary(word, right) == [kind |-> "Prefix", operator |-> Chars(word), right |-> right]

Binary(left, word, right) ==
  [kind |-> "Infix", operator |-> Chars(word), left |-> left, right |-> right]

Called(func, args) == [kind |-> "Call", func |-> func, args |-> args]

Only(expression) ==
  [kind |-> "Program",
   statements |-> <<[kind |-> "ExpressionStatement", expression |-> expression]>>]

\* The level the precedence table gives to the operator a word lexes to.
Level(word) == PRECEDENCES(Tokenize(Chars(word))[1].token_type)

\* C6: operator grouping follows the precedence table: `a op1 b op2 c` is
\* ((a op1 b) op2 c) when level(op1) >= level(op2) and (a op1 (b op2 c))
\* when level(op1) < level(op2); a prefix `-` or `!` binds tighter than
\* every binary operator, and a call binds tighter than a prefix operator.
C6_GroupingFollowsPrecedence ==
  pc = "parsed" =>
    /\ \A op1 \in BinaryWords, op2 \in BinaryWords :
         source = Join(<<"a", op1, "b", op2, "c">>) =>
           Shape(program) =
             Only(IF Level(op1) >= Level(op2)
                  THEN Binary(Binary(Name("a"), op1, Name("b")), op2, Name("c"))
                  ELSE Binary(Name("a"), op1, Binary(Name("b"), op2, Name("c"))))
    /\ \A pre \in {"-", "!"}, op \in BinaryWords :
         /\ source = Join(<<pre, "a", op, "b">>) =>
              Shape(program) = Only(Binary(Unary(pre, Name("a")), op, Name("b")))
         /\ source = Join(<<"a", op, pre, "b">>) =>
              Shape(program) = Only(Binary(Name("a"), op, Unary(pre, Name("b"))))
         /\ source = Join(<<pre, "f", "(", "a", ")", op, "b">>) =>
              Shape(program) =
                Only(Binary(Unary(pre, Called(Name("f"), <<Name("a")>>)), op, Name("b")))
    /\ \A pre \in {"-", "!"} :
         source = Join(<<pre, "f", "(", "a", ")">>) =>
           Shape(program) = Only(Unary(pre, Called(Name("f"), <<Name("a")>>)))

\* The chains `a + b * c`, `a * b + c` and `a - b - c` and the prefixed call
\* `- f ( a ) * b` were parsed, each into its tree.
C6_Witness ==
  /\ pc = "parsed"
  /\ parser.errors = <<>>
  /\ \/ /\ source = Join(<<"a", "+", "b", "*", "c">>)
        /\ Shape(program) =
             Only(Binary(Name("a"), "+", Binary(Name("b"), "*", Name("c"))))
     \/ /\ source = Join(<<"-", "f", "(", "a", ")", "*", "b">>)
        /\ Shape(program) =
             Only(Binary(Unary("-", Called(Name("f"), <<Name("a")>>)), "*", Name("b")))

\* C7: when statement i of the top-level program is the first to produce a
\* Return (directly or from a `return` nested in if-blocks), the program
\* result is the returned inner value and statements i+1.. are never
\* evaluated: nothing happens after that statement.
C7_FirstReturnEndsProgram ==
  \A j \in 1..Len(memory.log) :
    (/\ memory.log[j].ev = "stmt"
     /\ memory.log[j].of = "Program"
     /\ HasType(memory.log[j].val, "RETURN"))
    => /\ j = Len(memory.log)
       /\ memory.exc = ""
       /\ pc = "evaluated" => Same(evaluated, memory.log[j].val.value)

\* A program of two statements whose first returned from inside two nested
\* if-blocks: the result is the inner value and the second was not run.
C7_Witness ==
  /\ pc = "evaluated"
  /\ Len(program.statements) = 2
  /\ memory.log # <<>>
  /\ \E j \in 1..Len(memory.log) :
       /\ memory.log[j].ev = "stmt"
       /\ memory.log[j].of = "Program"
       /\ memory.log[j].i = 1
       /\ HasType(memory.log[j].val, "RETURN")
       /\ Same(evaluated, memory.log[j].val.value)
       /\ \E b \in 1..(j - 1), c \in 1..(j - 1) :
            /\ b < c
            /\ \A e \in {b, c} :
                 /\ memory.log[e].ev = "stmt"
                 /\ memory.log[e].of = "Block"
                 /\ Same(memory.log[e].val, memory.log[j].val)

\* C8: if a statement of a program or of a block evaluates to an Error
\* object, that program or block returns that same Error, no later
\* statement in it is evaluated, and the Error propagates unchanged through
\* every enclosing block up to the program result.
C8_ErrorStatementIsProgramResult ==
  (pc = "evaluated" /\ memory.exc = "") =>
    \A e \in DOMAIN Events : LET event == Events[e] IN
      (event.ev = "stmt" /\ HasType(event.val, "ERROR"))
      => Same(evaluated, event.val)

\* C9: every infix operator, `==` and `!=` included, applied to operands of
\* different runtime types (other than String * Integer) gives the Error
\* "Type mismatch: <L> <op> <R>".
C9_DifferentTypesMismatch ==
  \A e \in DOMAIN Events : LET event == Events[e] IN
    (/\ event.ev = "infix"
     /\ event.left.type # event.right.type
     /\ ~(/\ event.left.type = "STRING"
          /\ event.right.type = "INTEGER"
          /\ event.operator = <<"*">>))
    => /\ event.val.type = "ERROR"
       /\ event.val.message =
            <<_TYPE_MISMATCH, event.left.type, event.operator, event.right.type>>

\* C10: closures are lexically scoped: a call evaluates the body in a fresh
\* frame whose outer is the environment in which the function literal was
\* evaluated, never the caller's; a function returned by another function
\* still sees that function's parameters, and a name bound only in the
\* caller's frame is not visible to the body.
C10_ClosuresAreLexical ==
  /\ \A j \in 1..Len(memory.log) :
       (memory.log[j].ev = "call" /\ memory.log[j].frame # 0)
       => /\ memory.envs[memory.log[j].frame].outer = memory.log[j].fn.env
          /\ \E d \in 1..(j - 1) :
               /\ memory.log[d].ev = "function"
               /\ memory.log[d].fn.id = memory.log[j].fn.id
               /\ memory.log[d].env = memory.log[j].fn.env
  /\ pc = "evaluated" =>
       /\ source = Join(<<"let", "k", "=", "function", "(", "x", ")", "{",
                          "function", "(", "y", ")", "{", "x", "+", "y", "}", "}", ";",
                          "k", "(", "1", ")", "(", "2", ")", ";">>)
            => Same(evaluated, Integer(3))
       /\ source = Join(<<"let", "f", "=", "function", "(", ")", "{", "a", "}", ";",
                          "function", "(", ")", "{", "let", "a", "=", "2", ";",
                          "f", "(", ")", "}", "(", ")", ";">>)
            => /\ HasType(evaluated, "ERROR")
               /\ evaluated.message = <<_UNKNOWN_IDENT, <<"a">>>>

\* A function returned by another function was called after that one
\* returned, from an environment other than the one it was made in, and its
\* body saw the parameter of the function that made it.
C10_Witness ==
  /\ pc = "evaluated"
  /\ Same(evaluated, Integer(3))
  /\ \E j \in 1..Len(memory.log) :
       /\ memory.log[j].ev = "call"
       /\ memory.log[j].frame # 0
       /\ memory.log[j].fn.env # memory.log[j].env
       /\ memory.envs[memory.log[j].frame].outer = memory.log[j].fn.env
       /\ \E a \in 1..(j - 1) :
            /\ memory.log[a].ev = "applied"
            /\ HasType(memory.log[a].val, "FUNCTION")
            /\ memory.log[a].val.id = memory.log[j].fn.id

\* C11: calling a user-defined function that has n parameters with m < n
\* arguments returns the Error "Wrong number of arguments: expected n
\* (given m)" without evaluating the body.
C11_TooFewArgumentsIsError ==
  \A j \in 1..Len(memory.log) :
    (/\ memory.log[j].ev = "apply"
     /\ memory.log[j].fn.type = "FUNCTION"
     /\ Len(memory.log[j].args) < Len(memory.log[j].fn.params))
    => /\ memory.exc = ""
       /\ j < Len(memory.log)
       /\ memory.log[j + 1].ev = "applied"
       /\ HasType(memory.log[j + 1].val, "ERROR")
       /\ memory.log[j + 1].val.message =
            <<_WRONG_ARGS_NUM, Len(memory.log[j].fn.params), Len(memory.log[j].args)>>

\* The REPL has just printed the value of an accepted line.
Inspected ==
  /\ pc = "prompt"
  /\ inputs > 0
  /\ printed.out = "Inspect"
  /\ ~HasType(printed.object, "ERROR")

\* The names that the let lines of the history bind.
Bound(history) ==
  { Chars(n) : n \in { m \in {"a", "x", "length"} :
      \E i \in 1..Len(history), v \in {"1", "true"} :
        history[i] = Join(<<"let", m, "=", v, ";">>) } }

NotARead(event) == event.ev # "identifier"

Operations == SelectSeq(Events, NotARead)

IsPrefix(event, operator) == event.ev = "prefix" /\ event.operator = Chars(operator)

\* C13: evaluation order is fixed and eager.  An Infix node evaluates its
\* left operand, then its right operand, whatever the left one's value
\* (`&&` and `||` included), and only then applies the operator.  A Call
\* evaluates the callee, then the arguments from left to right, all of them
\* before the application, also when the callee is no function or an
\* earlier argument is an Error.
C13_EvaluationIsEagerLeftToRight ==
  /\ (pc = "evaluated" /\ source \in OrderInfixSources)
     => /\ memory.exc = ""
        /\ Len(Operations) >= 3
        /\ IsPrefix(Operations[1], "!")
        /\ IsPrefix(Operations[2], "-")
        /\ Operations[3].ev = "infix"
        /\ Same(Operations[3].left, Operations[1].val)
        /\ Same(Operations[3].right, Operations[2].val)
  /\ (pc = "evaluated" /\ source \in OrderCallSources)
     => /\ memory.exc = ""
        /\ Len(Operations) >= 4
        /\ \/ IsPrefix(Operations[1], "!") /\ Same(Operations[4].fn, Operations[1].val)
           \/ Operations[1].ev = "function" /\ Same(Operations[4].fn, Operations[1].fn)
        /\ IsPrefix(Operations[2], "-")
        /\ IsPrefix(Operations[3], "-")
        /\ Operations[4].ev = "apply"
        /\ Len(Operations[4].args) = 2
        /\ Same(Operations[4].args[1], Operations[2].val)
        /\ Same(Operations[4].args[2], Operations[3].val)

\* `! true && - 2`: the left operand is FALSE and the right one is evaluated
\* all the same.
C13_Witness ==
  /\ pc = "evaluated"
  /\ source = Join(<<"!", "true", "&&", "-", "2">>)
  /\ Same(Operations[1].val, FALSE_)
  /\ Same(Operations[2].val, Integer(-2))
  /\ Operations[3].ev = "infix"

RECURSIVE SkipFrom(_, _)
\* The index of the first character of the text at or after index i that is
\* no white space (one past the end when there is none).
SkipFrom(text, i) ==
  IF i <= Len(text) /\ text[i] \in WhiteSpace THEN SkipFrom(text, i + 1) ELSE i

\* The character of the text at index i, '' past the end.
CharAt(text, i) == IF i \in 1..Len(text) THEN text[i] ELSE ""

\* C14: for every source string, each token other than EOF that next_token
\* returns consumes at least one character, so the (len(source)+1)-th call
\* returns the token (EOF, '') and every later call returns it too.
C14_EofAfterLenCallsForever ==
  [][calls' = calls + 1 =>
       /\ token'.token_type # "EOF"
            => lexer.position < Len(source) /\ lexer'.position > lexer.position
       /\ calls' > Len(source) => token' = EOF_TOKEN
       /\ token = EOF_TOKEN => token' = EOF_TOKEN]_vars

\* The text `1 a`, three characters, has given EOF at the third call and
\* gives it again at the fifth.
C14_Witness ==
  /\ pc = "lex"
  /\ source = <<"1", " ", "a">>
  /\ calls = 5
  /\ token = EOF_TOKEN

\* The kind of the operator that c opens and d completes, "" when there is
\* none.
CompoundKind(c, d) ==
  CASE c = "=" /\ d = "=" -> "EQUALS"
    [] c = "!" /\ d = "=" -> "NOT_EQUALS"
    [] c = "<" /\ d = "=" -> "LE"
    [] c = ">" /\ d = "=" -> "GE"
    [] c = "&" /\ d = "&" -> "AND"
    [] c = "|" /\ d = "|" -> "OR"
    [] OTHER -> ""

\* C18: recognition of two-character operators is greedy.  When the current
\* character is `=`, `!`, `<` or `>` and the next one is `=`, or the
\* current one is `&` followed by `&`, or `|` followed by `|`, next_token
\* returns one compound token whose literal is both characters and consumes
\* both; in every other case it returns the token of the single character
\* and consumes exactly that character.
C18_TwoCharacterOperatorsAreGreedy ==
  [][calls' = calls + 1 =>
       LET i == SkipFrom(source, lexer.position + 1)
           c == CharAt(source, i)
           d == CharAt(source, i + 1)
       IN c \in {"=", "!", "<", ">", "&", "|"} =>
            IF CompoundKind(c, d) # ""
            THEN /\ token' = Token(CompoundKind(c, d), <<c, d>>)
                 /\ lexer'.position = i + 1
            ELSE /\ token'.literal = <<c>>
                 /\ token'.token_type \in {"ASSIGN", "NEGATION", "LT", "GT",
                                           "INTERSECTION", "UNION"}
                 /\ lexer'.position = i]_vars

\* `<=` then `=`: the first call has taken both characters of `<=`, the
\* second one the single `=`.
C18_Witness ==
  /\ pc = "lex"
  /\ source = <<"<", "=", "=">>
  /\ calls = 2
  /\ token = Token("ASSIGN", <<"=">>)
  /\ lexer.position = 3

\* The objects an event of the log mentions.
Mentioned(event) ==
  CASE event.ev \in {"stmt", "let", "applied", "identifier"} -> <<event.val>>
    [] event.ev = "prefix" -> <<event.right, event.val>>
    [] event.ev = "infix" -> <<event.left, event.right, event.val>>
    [] event.ev \in {"apply", "call"} -> event.args
    [] OTHER -> <<>>

\* C15: every Boolean object that evaluation produces (Boolean literals,
\* comparisons of Integers and of Strings, `!`, values returned from
\* functions or read from bindings) is one of the two shared objects TRUE
\* and FALSE; so for Boolean operands `a == b` is TRUE exactly when they
\* have the same truth value and `a != b` is TRUE exactly when they differ.
C15_BooleansAreTheSentinels ==
  /\ HasType(evaluated, "BOOLEAN") => evaluated \in {TRUE_, FALSE_}
  /\ \A j \in 1..Len(memory.log) :
       /\ \A i \in 1..Len(Mentioned(memory.log[j])) :
            HasType(Mentioned(memory.log[j])[i], "BOOLEAN")
              => Mentioned(memory.log[j])[i] \in {TRUE_, FALSE_}
       /\ (/\ memory.log[j].ev = "infix"
           /\ memory.log[j].operator \in {Chars("=="), Chars("!=")}
           /\ HasType(memory.log[j].left, "BOOLEAN")
           /\ HasType(memory.log[j].right, "BOOLEAN"))
          => memory.log[j].val =
               IF (memory.log[j].left.value = memory.log[j].right.value)
                    <=> memory.log[j].operator = Chars("==")
               THEN TRUE_ ELSE FALSE_

\* A Boolean made by `!` and read from a binding is the object of the
\* literal true.
C15_Witness ==
  /\ pc = "evaluated"
  /\ source = Join(<<"let", "t", "=", "!", "0", ";", "t", "==", "true">>)
  /\ evaluated = TRUE_

\* The block that negates the Integer n has run: its statement applied `-`.
BlockRan(n) ==
  \E j \in 1..Len(memory.log) :
    IsPrefix(memory.log[j], "-") /\ Same(memory.log[j].right, Integer(n))

\* The value of the condition of the last if-expression that chose a block.
LastCondition ==
  memory.log[CHOOSE j \in 1..Len(memory.log) :
               /\ memory.log[j].ev = "if"
               /\ \A k \in (j + 1)..Len(memory.log) : memory.log[k].ev # "if"].cond

C19_DivisionRoundsDown ==
  \A j \in 1..Len(memory.log) :
    (/\ memory.log[j].ev = "infix"
     /\ memory.log[j].operator = Chars("/")
     /\ HasType(memory.log[j].left, "INTEGER")
     /\ HasType(memory.log[j].right, "INTEGER")
     /\ memory.log[j].right.value # 0)
    => /\ HasType(memory.log[j].val, "INTEGER")
       /\ LET a == memory.log[j].left.value
              b == memory.log[j].right.value
              remainder == a - memory.log[j].val.value * b
          IN IF b > 0 THEN 0 <= remainder /\ remainder < b
             ELSE b < remainder /\ remainder <= 0

C19_Witness ==
  /\ pc = "evaluated"
  /\ source = Join(<<"-", "7", "/", "2">>)
  /\ Same(evaluated, Integer(-4))

\* Whether `text` is `unit` written `times` times (no times at all for a
\* number below 1).
IsRepeated(text, unit, times) ==
  /\ Len(text) = Len(unit) * (IF times < 0 THEN 0 ELSE times)
  /\ \A k \in 1..Len(text) : text[k] = unit[((k - 1) % Len(unit)) + 1]

\* C20: the infix operations on Strings follow the table.  For two Strings
\* `+` gives the concatenation, `==` and `!=` compare the texts (two equal
\* Strings made separately are ==), and any other operator gives the Error
\* "Invalid operation: STRING <op> STRING"; for a String on the left and an
\* Integer N on the right `*` gives the text repeated N times and any other
\* operator gives the Error "Type mismatch: STRING <op> INTEGER".
C20_StringOperationsFollowTheTable ==
  \A j \in 1..Len(memory.log) :
    (memory.log[j].ev = "infix" /\ HasType(memory.log[j].left, "STRING"))
    => LET op == memory.log[j].operator
           left == memory.log[j].left.value
           right == memory.log[j].right
           val == memory.log[j].val
       IN /\ HasType(right, "STRING") =>
               CASE op = Chars("+") ->
                      HasType(val, "STRING") /\ val.value = left \o right.value
                 [] op = Chars("==") ->
                      val = (IF left = right.value THEN TRUE_ ELSE FALSE_)
                 [] op = Chars("!=") ->
                      val = (IF left # right.value THEN TRUE_ ELSE FALSE_)
                 [] OTHER ->
                      /\ HasType(val, "ERROR")
                      /\ val.message = <<"Invalid operation: {} {} {}", "STRING", op, "STRING">>
          /\ HasType(right, "INTEGER") =>
               IF op = Chars("*")
               THEN HasType(val, "STRING") /\ IsRepeated(val.value, left, right.value)
               ELSE /\ HasType(val, "ERROR")
                    /\ val.message = <<"Type mismatch: {} {} {}", "STRING", op, "INTEGER">>

\* Two equal Strings, made separately and written with different quotes,
\* are ==.
C20_Witness ==
  /\ pc = "evaluated"
  /\ source = Join(<<"'a'", "==", "\"a\"">>)
  /\ memory.log[1].ev = "infix"
  /\ evaluated = TRUE_

\* C17: printing is a fixed point of parsing: for every single expression s
\* made of Integer literals, identifiers, the binary operators of the
\* precedence table, the prefix operators `-` and `!` and parentheses,
\* parse(s) has no errors and print(parse(print(parse(s)))) equals
\* print(parse(s)).
C17_PrintIsFixedPointOfParse ==
  source \in ExpressionSources =>
    /\ pc \in {"parsed", "printed"} => parser.errors = <<>>
    /\ pc = "printed" => /\ printed.first.raised = ""
                         /\ printed.second.raised = ""
                         /\ printed.second.errors = <<>>
                         /\ printed.second.text = printed.first.text

\* C21: the builtin `length` checks arity before type: called with a number
\* of arguments other than 1 it returns the Error "Wrong number of
\* arguments: expected 1 (given m)"; called with one String it returns the
\* Integer number of its characters; called with one argument of any other
\* type T it returns the Error "Invalid T type argument"; it never raises.
C21_LengthChecksArityBeforeType ==
  \A j \in DOMAIN Events :
    LET event == Events[j]
    IN (event.ev = "call" /\ event.fn.type = "BUILTIN") =>
         /\ j < Len(Events)
         /\ Events[j + 1].ev = "applied"
         /\ LET val == Events[j + 1].val
                args == event.args
            IN IF Len(args) # 1
               THEN /\ val.type = "ERROR"
                    /\ val.message = <<_WRONG_ARGS_NUM, 1, Len(args)>>
               ELSE IF args[1].type = "STRING"
               THEN val.type = "INTEGER" /\ val.value = Len(args[1].value)
               ELSE /\ val.type = "ERROR"
                    /\ val.message = <<_UNSUPPORTED_ARG_TYPE, args[1].type>>

\* length(true, 'a') has been evaluated: the count of the arguments is what
\* the Error reports, the Boolean in the first place is not.
C21_Witness ==
  /\ pc = "evaluated"
  /\ source = Join(<<"length", "(", "true", ",", "'a'", ")">>)
  /\ HasType(evaluated, "ERROR")
  /\ evaluated.message = <<_WRONG_ARGS_NUM, 1, 2>>

\* Whether two frames have the same outer frame and the same bindings.
SameFrame(f, g) ==
  /\ f.outer = g.outer
  /\ DOMAIN f.store = DOMAIN g.store
  /\ \A key \in DOMAIN f.store : Same(f.store[key], g.store[key])

\* C22: bindings are only ever written to the innermost frame: a `let`, a
\* parameter binding or a named function declaration executed during a
\* function call changes only that call's fresh frame, so when a call
\* returns every frame that existed before it, the function's captured
\* environment and every outer frame among them, has the bindings it had
\* before the call.
C22_CallsWriteOnlyTheirFrame ==
  \A j \in DOMAIN Events :
    LET event == Events[j]
    IN event.ev = "applied" =>
         /\ Len(event.before) <= Len(event.after)
         /\ \A env \in DOMAIN event.before :
              SameFrame(event.before[env], event.after[env])

\* A function with the parameter a, whose body rebinds a, has been called
\* where a is 1: its frame holds the new binding and a is still 1 outside.
C22_Witness ==
  /\ pc = "evaluated"
  /\ source = Join(<<"let", "a", "=", "1", ";", "let", "f", "=", "function", "(", "a", ")",
                     "{", "let", "a", "=", "2", ";", "a", "}", ";", "f", "(", "7", ")", ";",
                     "a">>)
  /\ HasType(evaluated, "INTEGER") /\ evaluated.value = 1
  /\ Len(memory.envs) = 2
  /\ memory.envs[2].store[<<"a">>].value = 2
  /\ memory.envs[1].store[<<"a">>].value = 1

RECURSIVE Chain(_, _)
\* The frames of an environment, innermost first.
Chain(envs, env) ==
  IF env = 0 THEN <<>> ELSE <<envs[env]>> \o Chain(envs, envs[env].outer)

\* C23: an identifier resolves to the binding in the innermost frame of the
\* environment chain that defines it (an inner binding or parameter shadows
\* an outer one of the same name); only when no frame defines it is the
\* built-ins table consulted (a user binding named `length` shadows the
\* builtin); when neither defines it the result is the Error "Identifier
\* not found: <name>".
C23_InnermostBindingWins ==
  \A j \in DOMAIN Events :
    LET event == Events[j]
        chain == Chain(event.envs, event.env)
        defining == { f \in DOMAIN chain : event.name \in DOMAIN chain[f].store }
    IN event.ev = "identifier" =>
         IF defining # {}
         THEN \E f \in defining :
                /\ \A g \in defining : f <= g
                /\ Same(event.val, chain[f].store[event.name])
         ELSE IF event.name \in BUILTINS
         THEN event.val.type = "BUILTIN" /\ event.val.fn = event.name
         ELSE /\ event.val.type = "ERROR"
              /\ event.val.message = <<_UNKNOWN_IDENT, event.name>>

\* `length` has been read where it is a parameter bound to 'a', inside a
\* frame whose outer frame binds it to 1: the read gave the String.
C23_Witness ==
  /\ pc = "evaluated"
  /\ source = Join(<<"let", "length", "=", "1", ";", "function", "(", "length", ")", "{",
                     "length", "}", "(", "'a'", ")">>)
  /\ HasType(evaluated, "STRING") /\ evaluated.value = <<"a">>
  /\ \E j \in DOMAIN Events :
       /\ Events[j].ev = "identifier"
       /\ Events[j].env = 2
       /\ Events[j].envs[1].store[Chars("length")].value = 1

\* The expression of the first statement of the program, None when the
\* program has no first statement or the statement has no expression.
FirstExpression ==
  IF program = None \/ program.statements = <<>> THEN None
  ELSE IF program.statements[1].kind # "ExpressionStatement" THEN None
  ELSE program.statements[1].expression

\* C24: the word forms `and`, `or` and `xor` behave as identifiers in
\* expression position: the parser does not treat them as infix operators
\* (`true and false` does not parse as an Infix node with operator `and`),
\* and evaluating a program that uses one of them produces the Error
\* "Identifier not found: <word>".
C24_WordFormsAreIdentifiers ==
  (pc = "evaluated" /\ source \in WordSources) =>
    /\ ~(/\ FirstExpression # None
         /\ FirstExpression.kind = "Infix"
         /\ FirstExpression.operator \in WordForms)
    /\ memory.exc = "" =>
         /\ HasType(evaluated, "ERROR")
         /\ \E w \in WordForms : evaluated.message = <<_UNKNOWN_IDENT, w>>

\* C24, amended: the word forms `and`, `or` and `xor` are infix operators:
\* an operand, a word form and an operand parse with no parse error as one
\* statement, an Infix node whose operator is the word, and when both
\* operands evaluate to objects that node evaluates to the Error "Invalid
\* operation: L <word> R" for operands of the same type and "Type
\* mismatch: L <word> R" for operands of different types.
C24_WordFormsAreInfixOperators ==
  (pc = "evaluated" /\ source \in WordSources) =>
    /\ parser.errors = <<>>
    /\ Len(program.statements) = 1
    /\ FirstExpression # None
    /\ FirstExpression.kind = "Infix"
    /\ FirstExpression.operator \in WordForms
    /\ FirstExpression.left.kind # "Infix" /\ FirstExpression.right.kind # "Infix"
    /\ memory.exc = "" =>
         /\ HasType(evaluated, "ERROR")
         /\ \E j \in DOMAIN Events :
              LET event == Events[j]
              IN /\ event.ev = "infix"
                 /\ event.operator = FirstExpression.operator
                 /\ Same(event.val, evaluated)
                 /\ evaluated.message =
                      <<IF event.left.type = event.right.type
                        THEN _UNKNOWN_INFIX_OPER ELSE _TYPE_MISMATCH,
                        event.left.type, event.operator, event.right.type>>

\* `true and true` has been evaluated: the result is the Error of an
\* operation that two Booleans do not have.
C24_Witness ==
  /\ pc = "evaluated"
  /\ source = Join(<<"true", "and", "true">>)
  /\ FirstExpression.kind = "Infix"
  /\ FirstExpression.operator = Chars("and")
  /\ HasType(evaluated, "ERROR")
  /\ evaluated.message = <<_UNKNOWN_INFIX_OPER, "BOOLEAN", Chars("and"), "BOOLEAN">>

\* C25: an `=` that follows an expression (outside a let-statement), as in
\* `a = 1`, is consumed as an infix operator: the parser produces an Infix
\* node with operator `=` and no parse error (and evaluating that node
\* yields a type-error Error object).
C25_AssignIsInfix ==
  (pc = "parsed" /\ source \in AssignSources) =>
    /\ parser.errors = <<>>
    /\ FirstExpression # None
    /\ FirstExpression.kind = "Infix"
    /\ FirstExpression.operator = <<"=">>

\* C26: a string literal opened by the quote character q (`'` or `"`) ends
\* only at the next occurrence of the same q, the other quote character
\* being ordinary content; the token literal is exactly the text between
\* the quotes; when no closing q exists the literal is all the remaining
\* input, the reading loop still terminates, and every following token is
\* EOF.
C26_StringEndsAtSameQuote ==
  [][calls' = calls + 1 =>
       /\ LET i == SkipFrom(source, lexer.position + 1)
              q == CharAt(source, i)
              closing == { k \in (i + 1)..Len(source) : source[k] = q }
          IN q \in Quotes =>
               /\ token'.token_type = "STRING"
               /\ IF closing # {}
                  THEN \E k \in closing :
                         /\ \A h \in closing : k <= h
                         /\ token'.literal = SubSeq(source, i + 1, k - 1)
                         /\ lexer'.position = k
                  ELSE /\ token'.literal = SubSeq(source, i + 1, Len(source))
                       /\ lexer'.character = ""
       /\ lexer.character = "" => token' = EOF_TOKEN /\ lexer'.character = ""]_vars

\* The text `'"a`, a string that is never closed: the first call has given
\* the String `"a`, the other quote in it, and left the lexer at the end
\* of the text.
C26_Witness ==
  /\ pc = "lex"
  /\ source = <<"'", "\"", "a">>
  /\ calls = 1
  /\ token = Token("STRING", <<"\"", "a">>)
  /\ lexer.character = ""

\* What the step of an event produced, None for an event of a step that
\* produces no object.
Produced(event) ==
  IF event.ev \in {"identifier", "prefix", "infix", "applied", "let", "stmt"}
  THEN event.val ELSE None

\* C27: an Error produced while evaluating any sub-expression (an operand
\* of a prefix or infix operator, an if-condition, a callee or a call
\* argument) becomes the result of the enclosing statement unchanged, so
\* the program result is the first Error produced, with its original
\* message: no operator, condition or call turns an Error operand into a
\* non-Error value or into a different Error.
C27_FirstErrorIsTheResult ==
  (pc = "evaluated" /\ memory.exc = "") =>
    /\ \A j \in DOMAIN Events :
         (/\ HasType(Produced(Events[j]), "ERROR")
          /\ \A h \in 1..(j - 1) : ~HasType(Produced(Events[h]), "ERROR"))
         => Same(evaluated, Produced(Events[j]))
    /\ \A j \in DOMAIN Events :
         LET event == Events[j]
         IN /\ (event.ev = "prefix" /\ event.right.type = "ERROR")
                => Same(event.val, event.right)
            /\ (event.ev = "infix" /\ event.left.type = "ERROR")
                => Same(event.val, event.left)
            /\ (event.ev = "infix" /\ event.left.type # "ERROR"
                                   /\ event.right.type = "ERROR")
                => Same(event.val, event.right)

\* C28: the history of the REPL session, after any sequence of inputs and
\* joined with single spaces, is a program that parses with no parse errors
\* and whose evaluation in a fresh environment does not yield an Error
\* object.
C28_HistoryEvaluatesCleanly ==
  pc = "prompt" =>
    \A parsed \in {parse_program(Parser(JoinLines(scanned)))} :
      /\ ~Raised(parsed)
      /\ parsed.p.errors = <<>>
      /\ \A r \in {evaluate(parsed.node, 1, NewState)} : ~HasType(r.val, "ERROR")

\* C29: the operators `&&`, `||` and `^` are accepted by the parser as
\* infix operators but the evaluator defines no result for them: for every
\* pair of operand values of any types, `l && r`, `l || r` and `l ^ r`
\* evaluate to an Error object ("Invalid operation" or "Type mismatch"),
\* never to a Boolean.
C29_LogicalOperatorsGiveErrors ==
  /\ (pc = "evaluated" /\ source \in SymbolSources) =>
       /\ Len(program.statements) = 1
       /\ FirstExpression # None
       /\ FirstExpression.kind = "Infix"
       /\ FirstExpression.operator \in SymbolForms
  /\ \A j \in DOMAIN Events :
       LET event == Events[j]
       IN (event.ev = "infix" /\ event.operator \in SymbolForms) =>
            /\ event.val.type = "ERROR"
            /\ \/ event.val.message = <<_UNKNOWN_INFIX_OPER, event.left.type,
                                         event.operator, event.right.type>>
               \/ event.val.message = <<_TYPE_MISMATCH, event.left.type,
                                         event.operator, event.right.type>>

\* `true || true` has been evaluated: the result is an Error, not true.
C29_Witness ==
  /\ pc = "evaluated"
  /\ source = Join(<<"true", "||", "true">>)
  /\ FirstExpression.operator = Chars("||")
  /\ HasType(evaluated, "ERROR")
  /\ evaluated.message = <<_UNKNOWN_INFIX_OPER, "BOOLEAN", Chars("||"), "BOOLEAN">>

RECURSIVE IdentParams(_)
\* Every parameter of every Function node of the tree was built from an
\* IDENT token.
IdentParams(node) ==
  CASE node.kind \in {"Program", "Block"} ->
         \A i \in 1..Len(node.statements) : IdentParams(node.statements[i])
    [] node.kind = "ExpressionStatement" -> IdentParams(node.expression)
    [] node.kind = "ReturnStatement" -> IdentParams(node.return_value)
    [] node.kind = "LetStatement" -> IdentParams(node.value)
    [] node.kind = "Prefix" -> IdentParams(node.right)
    [] node.kind = "Infix" -> IdentParams(node.left) /\ IdentParams(node.right)
    [] node.kind = "If" ->
         IdentParams(node.condition) /\ IdentParams(node.consequence)
           /\ IdentParams(node.alternative)
    [] node.kind = "Function" ->
         /\ \A i \in 1..Len(node.params) : node.params[i].token.token_type = "IDENT"
         /\ IdentParams(node.body)
    [] node.kind = "Call" -> IdentParams(node.func) /\ IdentParams(node.args)
    [] node.kind = "list" -> \A i \in 1..Len(node.items) : IdentParams(node.items[i])
    [] OTHER -> TRUE

\* C30: whenever a source parses with no parse errors, every parameter of
\* every Function node was built from an IDENT token; a token of any other
\* kind (an integer, a keyword, an operator) in a parameter position of
\* `function (...)` records a parse error.
C30_ParametersAreIdentifiers ==
  (pc = "parsed" /\ parser.errors = <<>>) => IdentParams(program)
====
